---- MODULE Spec2Model ----
(***************************************************************************)
(* Model of the Oracle -> Meilisearch synchronisation engine               *)
(* (src/src/sync_engine.py), of the state it keeps, and of the interval    *)
(* scheduler that drives it (src/src/scheduler.py).                        *)
(*                                                                         *)
(* Time is counted in clock ticks; TicksPerSec ticks make one second, so   *)
(* that the second-resolution text produced by strftime('%Y-%m-%d          *)
(* %H:%M:%S') loses the sub-second part of a datetime.                     *)
(*                                                                         *)
(* Environment assumptions (stated where they are used):                   *)
(*   - datetime.now() never goes backwards, and the source stamps a        *)
(*     modified row with the same clock;                                   *)
(*   - a round trip to the source takes at least one tick;                 *)
(*   - callers of save_last_sync_timestamp pass a time that is not in the  *)
(*     future.                                                             *)
(*   - the document store has applied a write, a deletion or a creation    *)
(*     when the call that asked for it returns: its task queue is not      *)
(*     modelled.                                                           *)
(*   - a scheduler thread outlasts the join timeout of stop() only while   *)
(*     it is inside incremental_sync.                                      *)
(*   - index_exists answers truthfully (it answers False on any error of   *)
(*     the document store).                                                *)
(*   - CronScheduler.get_next_run_time is modelled on the time of day; no  *)
(*     replace() it makes touches the date.                                *)
(***************************************************************************)
EXTENDS Integers, Sequences, FiniteSets, TLC

\* ---------------------------------------------------------------- bounds
MaxTime == 3
TicksPerSec == 2
MaxRecords == 4
MaxBatchSize == 3
MaxRetries == 3
MaxHistory == 3
MaxThreads == 2

\* keys of the watermark map, the tables the caller synchronises, and the
\* primary keys of the rows of a table
Tables == {"users", "orders"}
SyncTables == {"users"}
RowIds == {1, 2}

\* ------------------------------------------------------------ exceptions
ExtractionErrors == {[type |-> "DatabaseError", msg |-> "ORA-12541: no listener"]}
WriteErrors ==
  {[type |-> "MeilisearchCommunicationError", msg |-> "connection refused"],
   [type |-> "MeilisearchApiError", msg |-> "payload too large"]}
IndexNotFound == [type |-> "MeilisearchApiError", msg |-> "index_not_found"]
NoneHasNoStrftime ==
  [type |-> "AttributeError", msg |-> "'NoneType' object has no attribute 'strftime'"]
NoException == [type |-> "None", msg |-> "None"]

\* str(e) of an exception built from one message argument
Str(e) == e.msg

VARIABLES
  now,                   \* wall clock, in ticks (datetime.now())
  source,                \* source[t][r]: modified time of row r of table t
  target,                \* target[t]: [exists, docs] of the index named t
  last_sync_timestamps,  \* SyncEngine._last_sync_timestamps (a dict)
  pc,                    \* position of the caller inside the engine
  frame,                 \* locals of the call in progress
  result,                \* outcome of the last finished call
  stored_log,            \* per table, the watermarks stored by the successive
                         \* successful incremental_sync calls
  batch,                 \* locals of full_sync_batch
  retry,                 \* locals of full_sync_with_retry
  calls,                 \* what the call in progress did so far: writes to the
                         \* target, full_sync attempts, sleeps
  io_log,                \* the requests the sync call in progress (inside
                         \* full_sync_with_retry: its last full_sync attempt)
                         \* has sent to the source and to the document store
  sync_history,          \* SyncEngine._sync_history (a dict of lists)
  state_file,            \* the sync state file on disk
  persisted,             \* the watermark map as it was when the state file
                         \* was last written
  prev,                  \* outcome of the call before the last one, as the
                         \* caller remembers it
  running,               \* Scheduler._running
  thread,                \* Scheduler._thread (0 stands for None)
  stop_event,            \* Scheduler._stop_event (is it set)
  threads,               \* the background threads: where each one is in _run
  cpc,                   \* position of each caller of the scheduler
  engine,                \* Scheduler.sync_engine: which kind of object it is
  saved,                 \* the save_sync_status calls made on the engine, in
                         \* call order
  cron,                  \* a CronScheduler, the wall clock it reads and the
                         \* outcome of get_next_run_time
  query,                 \* the last read of the history and what it returned
  passes                 \* the locals of the incremental_sync calls that two
                         \* threads make on the engine at the same time

vars == <<now, source, target, last_sync_timestamps, pc, frame, result,
          stored_log, batch, retry, calls, io_log, sync_history, state_file, persisted,
          prev, running, thread, stop_event, threads, cpc, engine, saved, cron,
          query, passes>>

\* the variables of the sync calls and of their environment
engineVars == <<now, source, target, last_sync_timestamps, pc, frame, result,
                stored_log, batch, retry, calls, io_log, passes>>

\* the variables of the scheduler
schedVars == <<running, thread, stop_event, threads, cpc, engine>>

\* the history, the state file and what is remembered of them
stateVars == <<sync_history, state_file, persisted, prev>>

\* the variables none of the sync calls of the single caller touches
extraVars == <<stateVars, schedVars, saved, cron, query, passes>>

\* the variables the plain sync calls and the environment never touch
loopVars == <<batch, retry, calls>>

\* ------------------------------------------------------ pure conversions
\* last_sync_timestamp.strftime('%Y-%m-%d %H:%M:%S'): whole seconds only
Strftime(ts) == ts \div TicksPerSec

\* TO_TIMESTAMP('<text>', 'YYYY-MM-DD HH24:MI:SS') evaluated by the source
ToTimestamp(text) == text * TicksPerSec

\* datetime.isoformat(): seconds and the sub-second part, as text fields
IsoFormat(ts) == <<ts \div TicksPerSec, ts % TicksPerSec>>

\* one row of fetch_as_dict_with_iso_dates
RowDict(t, r, src) == [ID |-> r, MODIFIED_AT |-> IsoFormat(src[t][r])]

\* SELECT * FROM t: the rows as a list, in primary-key order
extract_from_oracle(t, src) == [r \in 1..Len(src[t]) |-> RowDict(t, r, src)]

\* SELECT * FROM t WHERE modified_column > TO_TIMESTAMP(strftime(last_sync))
extract_changed_records(t, last_sync, src) ==
  LET Changed(row) == src[t][row.ID] > ToTimestamp(Strftime(last_sync))
  IN SelectSeq(extract_from_oracle(t, src), Changed)

\* transform_to_documents: the data is returned as it is
transform_to_documents(data) == data

\* index.add_documents / index.update_documents: add or replace by primary key
ApplyDocuments(docs, documents) ==
  LET sent == {documents[k] : k \in 1..Len(documents)}
  IN [id \in (DOMAIN docs) \cup {d.ID : d \in sent} |->
        IF \E d \in sent : d.ID = id
          THEN (CHOOSE d \in sent : d.ID = id)
          ELSE docs[id]]

NoDocs == [id \in {} |-> 0]

\* --------------------------------------------------------------- results
\* status "returned": the call returned the dict in the other fields;
\* status "raised": the call raised exc (origin is the exception as the failing
\* collaborator raised it)
NoResult ==
  [status |-> "none", op |-> "none", table |-> "none", success |-> FALSE,
   changed_count |-> -1, oracle_count |-> -1, meilisearch_count |-> -1,
   total_records |-> -1, successful_records |-> -1, failed_batches |-> -1,
   failed_batch_info |-> <<>>,
   retry_count |-> -1, error |-> "", index_name |-> "", timestamp |-> <<>>,
   exc |-> NoException, origin |-> NoException]

Raised(op, t, e, origin) ==
  [NoResult EXCEPT !.status = "raised", !.op = op, !.table = t, !.exc = e,
                   !.origin = origin]

\* locals of the call; pre is the watermark map when the call began,
\* recreate_index the argument of that name
IdleFrame ==
  [table |-> "none", last_sync |-> -1, changed_records |-> <<>>,
   pre |-> [t \in {} |-> 0], recreate_index |-> FALSE]

IdleBatch ==
  [index_name |-> "none", batch_size |-> 0, documents |-> <<>>, i |-> 0,
   batch_number |-> 0, total_records |-> 0, successful_records |-> 0,
   failed_batches |-> 0, failed_batch_info |-> <<>>]

IdleRetry ==
  [index_name |-> "none", recreate_index |-> FALSE, max_retries |-> 0,
   retry_count |-> 0, last_exception |-> NoException]

\* ------------------------------------------------------------------ init
\* what the caller remembers of a finished call: its outcome, its
\* recreate_index argument and the source it ran against
NoPrev ==
  [result |-> NoResult, recreate_index |-> FALSE, source |-> [t \in {} |-> <<>>]]

\* None, as the value a read of the history returns
None == [table_name |-> "None", start_time |-> 0, end_time |-> 0,
         record_count |-> 0, status |-> "None"]

\* the history has not been read since it last changed
NoQuery == [op |-> "none", table |-> "none", value |-> None]

\* the two threads that can be inside incremental_sync together: the caller
\* of the engine and the thread of the scheduler
Passes == {"foreground", "background"}

\* the locals of incremental_sync when the thread is not inside it
IdlePass == [pc |-> "idle", table |-> "none", last_sync |-> -1,
             changed_records |-> <<>>, current_time |-> -1]

\* SyncEngine.__init__: no history; no state file has been written; no
\* thread is inside incremental_sync
InitState ==
  /\ passes = [p \in Passes |-> IdlePass]
  /\ sync_history = [t \in {} |-> <<>>]
  /\ state_file = [exists |-> FALSE, data |-> [t \in {} |-> <<>>]]
  /\ persisted = [t \in {} |-> 0]
  /\ prev = NoPrev
  /\ saved = <<>>
  /\ query = NoQuery

\* the first instant of a day, as a datetime without its date
Midnight == [hour |-> 0, minute |-> 0, second |-> 0, microsecond |-> 0]

\* no CronScheduler has been constructed
NoCron == [minute |-> [every |-> FALSE, n |-> 0],
           others |-> [hour |-> "*", day |-> "*", month |-> "*", weekday |-> "*"],
           now |-> Midnight, pc |-> "none",
           raised |-> NoException, next_run |-> Midnight]

\* a thread that has not been started; invoked: it has called
\* incremental_sync, with the arguments args; exc: the exception that ended
\* it; after_signal: how many calls of incremental_sync it began while the
\* stop event was set
NoThread ==
  [state |-> "unstarted", invoked |-> FALSE, args |-> <<>>, exc |-> NoException,
   after_signal |-> 0]

\* Scheduler.__init__ on the engine object eng, with the callers idle
InitScheduler(eng, callers) ==
  /\ running = FALSE
  /\ thread = 0
  /\ stop_event = FALSE
  /\ threads = [th \in 1..MaxThreads |-> NoThread]
  /\ cpc = [c \in callers |-> "idle"]
  /\ engine = eng

Init ==
  /\ InitState
  /\ cron = NoCron
  /\ InitScheduler("SyncEngine", {"main"})
  /\ now = 0
  /\ source = [t \in Tables |-> [r \in RowIds |-> 0]]
  /\ target = [t \in Tables |-> [exists |-> FALSE, docs |-> NoDocs]]
  /\ last_sync_timestamps = [t \in {} |-> 0]
  /\ pc = "idle"
  /\ frame = IdleFrame
  /\ result = NoResult
  /\ stored_log = [t \in Tables |-> <<>>]
  /\ batch = IdleBatch
  /\ retry = IdleRetry
  /\ calls = <<>>
  /\ io_log = <<>>

\* ----------------------------------------------------------- environment
\* the wall clock advances
Tick ==
  /\ now < MaxTime
  /\ now' = now + 1
  /\ UNCHANGED <<source, target, last_sync_timestamps, pc, frame, result, stored_log, loopVars, io_log, extraVars>>

\* another session updates a source row; the source stamps it with the clock
ModifyRow(t, r) ==
  /\ source[t][r] < now
  /\ source' = [source EXCEPT ![t][r] = now]
  /\ UNCHANGED <<now, target, last_sync_timestamps, pc, frame, result, stored_log, loopVars, io_log, extraVars>>

\* ------------------------------------------------------ state bookkeeping
\* self._last_sync_timestamps[table_name] = timestamp
save_last_sync_timestamp(map, t, ts) ==
  [x \in (DOMAIN map) \cup {t} |-> IF x = t THEN ts ELSE map[x]]

\* self._last_sync_timestamps.get(table_name); -1 stands for None
get_last_sync_timestamp(map, t) == IF t \in DOMAIN map THEN map[t] ELSE -1

SaveLastSyncTimestamp(t, ts) ==
  /\ pc = "idle"
  /\ ts <= now
  /\ last_sync_timestamps' = save_last_sync_timestamp(last_sync_timestamps, t, ts)
  /\ UNCHANGED <<now, source, target, pc, frame, result, stored_log, loopVars, io_log, extraVars>>

\* ------------------------------------------- requests to the two systems
\* one entry of io_log: the request, the table or index it names, its other
\* arguments, and what it raised (NoException when it returned)
Io(name, index, args, raised) ==
  [call |-> name, index |-> index, args |-> args, raised |-> raised]

\* the primary_key argument of the sync calls
PrimaryKey == "ID"

\* insert_documents_batch, lines 108-113: get_index, then add_documents; e is
\* what the call raises (index_not_found comes from get_index)
insert_documents_batch(t, documents, e) ==
  IF e = IndexNotFound THEN <<Io("get_index", t, <<>>, e)>>
  ELSE <<Io("get_index", t, <<>>, NoException), Io("add_documents", t, documents, e)>>

\* upsert_documents, lines 125-128: get_index, then update_documents
upsert_documents(t, documents, e) ==
  IF e = IndexNotFound THEN <<Io("get_index", t, <<>>, e)>>
  ELSE <<Io("get_index", t, <<>>, NoException), Io("update_documents", t, documents, e)>>

\* an incremental_sync that deletes from the target the rows it extracted
IncrementalWrites_PropagatesDeletes(t, changed_count, documents) ==
  IF changed_count > 0
    THEN upsert_documents(t, documents, NoException)
           \o <<Io("delete_documents", t, documents, NoException)>>
    ELSE <<>>

\* incremental_sync, lines 206-209: if changed_count > 0: upsert_documents
IncrementalWrites(t, changed_count, documents) ==
  IF changed_count > 0 THEN upsert_documents(t, documents, NoException) ELSE <<>>

\* the index is created before it is looked up and deleted
recreate_requests_CreatesFirst(ix, t, recreate, fail_at, e) ==
  IF ~recreate THEN <<>>
  ELSE (IF fail_at = "delete" THEN <<>>
        ELSE <<Io("create_index", t, <<PrimaryKey>>,
                  IF fail_at = "create" THEN e ELSE NoException)>>)
       \o <<Io("index_exists", t, <<>>, NoException)>>
       \o (IF ix.exists
             THEN <<Io("delete_index", t, <<>>,
                       IF fail_at = "delete" THEN e ELSE NoException)>>
             ELSE <<>>)

\* lines 152-156 (full_sync) and 280-286 (full_sync_batch) on index ix:
\* if recreate_index: if index_exists: delete_index; create_index; fail_at
\* names the call that raises e
recreate_requests(ix, t, recreate, fail_at, e) ==
  IF ~recreate THEN <<>>
  ELSE <<Io("index_exists", t, <<>>, NoException)>>
       \o (IF ix.exists
             THEN <<Io("delete_index", t, <<>>,
                       IF fail_at = "delete" THEN e ELSE NoException)>>
             ELSE <<>>)
       \o (IF fail_at = "delete" THEN <<>>
           ELSE <<Io("create_index", t, <<PrimaryKey>>,
                     IF fail_at = "create" THEN e ELSE NoException)>>)

\* lines 159 and 289: extract_from_oracle, reached unless the recreation raised
extract_requests(t, fail_at, e) ==
  IF fail_at \in {"delete", "create"} THEN <<>>
  ELSE <<Io("extract_from_oracle", t, <<>>,
            IF fail_at = "extract" THEN e ELSE NoException)>>

\* a full_sync that does not extract again once the index holds documents
full_sync_requests_ExtractsOnce(t, recreate, fail_at, e, src, tgt) ==
  LET documents == transform_to_documents(extract_from_oracle(t, src))
  IN recreate_requests(tgt[t], t, recreate, fail_at, e)
       \o (IF tgt[t].docs # NoDocs THEN <<>> ELSE extract_requests(t, fail_at, e))
       \o (IF fail_at \in {"delete", "create", "extract"} THEN <<>>
           ELSE insert_documents_batch(t, documents,
                                       IF fail_at = "write" THEN e ELSE NoException))
       \o (IF fail_at \in {"delete", "create", "extract", "write"} THEN <<>>
           ELSE <<Io("get_index", t, <<>>, NoException),
                  Io("get_stats", t, <<>>,
                     IF fail_at = "stats" THEN e ELSE NoException)>>)

\* lines 148-171: the requests of one full_sync, up to the one that raises
full_sync_requests(t, recreate, fail_at, e, src, tgt) ==
  LET documents == transform_to_documents(extract_from_oracle(t, src))
  IN recreate_requests(tgt[t], t, recreate, fail_at, e)
       \o extract_requests(t, fail_at, e)
       \o (IF fail_at \in {"delete", "create", "extract"} THEN <<>>
           ELSE insert_documents_batch(t, documents,
                                       IF fail_at = "write" THEN e ELSE NoException))
       \o (IF fail_at \in {"delete", "create", "extract", "write"} THEN <<>>
           ELSE <<Io("get_index", t, <<>>, NoException),
                  Io("get_stats", t, <<>>,
                     IF fail_at = "stats" THEN e ELSE NoException)>>)

\* ------------------------------------------------------- incremental_sync
\* lines 211-213: current_time = datetime.now(); save_last_sync_timestamp(...)
\* (last_sync and changed_count are the locals in scope there)
UpdatedTimestamps_ReplacesMap(map, t, last_sync, changed_count, clock) ==
  [x \in {t} |-> clock]

UpdatedTimestamps_StoresLastSync(map, t, last_sync, changed_count, clock) ==
  save_last_sync_timestamp(map, t, last_sync)

UpdatedTimestamps_OnlyWhenChanged(map, t, last_sync, changed_count, clock) ==
  IF changed_count > 0 THEN save_last_sync_timestamp(map, t, clock) ELSE map

UpdatedTimestamps(map, t, last_sync, changed_count, clock) ==
  save_last_sync_timestamp(map, t, clock)

\* lines 199-204 on a table without a watermark: last_sync is None; the
\* connection is opened and then None.strftime raises
IncrementalSyncNoWatermark(t) ==
  /\ pc = "idle"
  /\ get_last_sync_timestamp(last_sync_timestamps, t) = -1
  /\ \E e \in ExtractionErrors \cup {NoneHasNoStrftime} :
       result' = Raised("incremental_sync", t, e, e)
  /\ frame' = [IdleFrame EXCEPT !.table = t, !.pre = last_sync_timestamps]
  /\ pc' = "done"
  /\ UNCHANGED <<now, source, target, last_sync_timestamps, stored_log, loopVars, io_log, extraVars>>

\* lines 199-204: read the watermark and run the extraction query; the query
\* sees the source as it is now and its round trip takes one tick
IncrementalSyncExtract(t) ==
  /\ pc = "idle"
  /\ get_last_sync_timestamp(last_sync_timestamps, t) # -1
  /\ now < MaxTime
  /\ LET last_sync == get_last_sync_timestamp(last_sync_timestamps, t)
     IN frame' = [table |-> t, last_sync |-> last_sync,
                  changed_records |-> extract_changed_records(t, last_sync, source),
                  pre |-> last_sync_timestamps, recreate_index |-> FALSE]
  /\ now' = now + 1
  /\ io_log' = <<Io("extract_changed_records", t,
                    <<get_last_sync_timestamp(last_sync_timestamps, t)>>, NoException)>>
  /\ pc' = "inc_extracted"
  /\ UNCHANGED <<source, target, last_sync_timestamps, result, stored_log, loopVars, extraVars>>

\* lines 203: the extraction raises
IncrementalSyncExtractFails(t) ==
  /\ pc = "idle"
  /\ get_last_sync_timestamp(last_sync_timestamps, t) # -1
  /\ \E e \in ExtractionErrors :
       /\ result' = Raised("incremental_sync", t, e, e)
       /\ io_log' = <<Io("extract_changed_records", t,
                         <<get_last_sync_timestamp(last_sync_timestamps, t)>>, e)>>
  /\ frame' = [IdleFrame EXCEPT !.table = t,
                 !.last_sync = get_last_sync_timestamp(last_sync_timestamps, t),
                 !.pre = last_sync_timestamps]
  /\ pc' = "done"
  /\ UNCHANGED <<now, source, target, last_sync_timestamps, stored_log, loopVars, extraVars>>

\* lines 206-209: upsert_documents raises (get_index on a missing index, or the
\* update call itself)
IncrementalSyncUpsertFails_AfterSave ==
  /\ pc = "inc_extracted"
  /\ Len(frame.changed_records) > 0
  /\ \E e \in (IF target[frame.table].exists THEN WriteErrors ELSE {IndexNotFound}) :
       /\ result' = Raised("incremental_sync", frame.table, e, e)
       /\ io_log' = io_log \o upsert_documents(frame.table,
                        transform_to_documents(frame.changed_records), e)
  /\ last_sync_timestamps' =
       save_last_sync_timestamp(last_sync_timestamps, frame.table, now)
  /\ pc' = "done"
  /\ UNCHANGED <<now, source, target, frame, stored_log, loopVars, extraVars>>

IncrementalSyncUpsertFails ==
  /\ pc = "inc_extracted"
  /\ Len(frame.changed_records) > 0
  /\ \E e \in (IF target[frame.table].exists THEN WriteErrors ELSE {IndexNotFound}) :
       /\ result' = Raised("incremental_sync", frame.table, e, e)
       /\ io_log' = io_log \o upsert_documents(frame.table,
                        transform_to_documents(frame.changed_records), e)
  /\ pc' = "done"
  /\ UNCHANGED <<now, source, target, last_sync_timestamps, frame, stored_log, loopVars, extraVars>>

\* lines 204-218: upsert when there are changed rows, store the watermark,
\* return
IncrementalSyncFinish ==
  /\ pc = "inc_extracted"
  /\ LET t == frame.table
         changed_count == Len(frame.changed_records)
         documents == transform_to_documents(frame.changed_records)
     IN /\ changed_count > 0 => target[t].exists
        /\ target' = IF changed_count > 0
                       THEN [target EXCEPT ![t].docs = ApplyDocuments(@, documents)]
                       ELSE target
        /\ last_sync_timestamps' =
             UpdatedTimestamps(last_sync_timestamps, t, frame.last_sync,
                               changed_count, now)
        /\ stored_log' = [stored_log EXCEPT ![t] = Append(@, last_sync_timestamps'[t])]
        /\ result' = [NoResult EXCEPT !.status = "returned",
                                      !.op = "incremental_sync", !.table = t,
                                      !.success = TRUE,
                                      !.changed_count = changed_count]
        /\ io_log' = io_log \o IncrementalWrites(t, changed_count, documents)
  /\ pc' = "done"
  /\ UNCHANGED <<now, source, frame, loopVars, extraVars>>

\* -------------------------------------------------------------- full_sync
\* lines 181-184: except Exception as e: logger.error(...); raise
full_sync_except_Wraps(e) == [type |-> "RuntimeError", msg |-> Str(e)]

full_sync_except(e) == e

\* lines 153-156: the index after the optional delete and create
Recreated(ix, recreate, fail_at) ==
  IF ~recreate THEN ix
  ELSE IF fail_at = "delete" THEN ix
  ELSE IF fail_at = "create" THEN [exists |-> FALSE, docs |-> NoDocs]
  ELSE [exists |-> TRUE, docs |-> NoDocs]

\* fail_at names the collaborator call of full_sync that raises e ("none": no
\* call raises); this says which failures can happen on index ix
CanFail(ix, recreate, fail_at, e) ==
  LET ix1 == Recreated(ix, recreate, fail_at)
  IN /\ fail_at = "delete" => recreate /\ ix.exists /\ e \in WriteErrors
     /\ fail_at = "create" => recreate /\ e \in WriteErrors
     /\ fail_at = "extract" => e \in ExtractionErrors
     /\ fail_at = "write" =>
          IF ix1.exists THEN e \in WriteErrors ELSE e = IndexNotFound
     /\ fail_at \in {"stats", "none"} => ix1.exists
     /\ fail_at = "stats" => e \in WriteErrors
     /\ fail_at = "none" => e = NoException

\* lines 148-184: the whole of full_sync on table t: the index it leaves and
\* the outcome the caller gets
full_sync_SuccessIfCountsMatch(t, recreate, fail_at, e, src, tgt) ==
  LET ix1 == Recreated(tgt[t], recreate, fail_at)
      oracle_data == extract_from_oracle(t, src)
      documents == transform_to_documents(oracle_data)
      ix2 == IF fail_at \in {"delete", "create", "extract", "write"} THEN ix1
             ELSE [ix1 EXCEPT !.docs = ApplyDocuments(@, documents)]
  IN [index |-> ix2,
      result |->
        IF fail_at = "none"
          THEN [NoResult EXCEPT !.status = "returned", !.op = "full_sync",
                                !.table = t,
                                !.success =
                                   (Len(oracle_data) = Cardinality(DOMAIN ix2.docs)),
                                !.oracle_count = Len(oracle_data),
                                !.meilisearch_count = Cardinality(DOMAIN ix2.docs)]
          ELSE Raised("full_sync", t, full_sync_except(e), e)]

full_sync_CountsAccumulate(t, recreate, fail_at, e, src, tgt) ==
  LET ix1 == Recreated(tgt[t], recreate, fail_at)
      oracle_data == extract_from_oracle(t, src)
      documents == transform_to_documents(oracle_data)
      ix2 == IF fail_at \in {"delete", "create", "extract", "write"} THEN ix1
             ELSE [ix1 EXCEPT !.docs = ApplyDocuments(@, documents)]
  IN [index |-> ix2,
      result |->
        IF fail_at = "none"
          THEN [NoResult EXCEPT !.status = "returned", !.op = "full_sync",
                                !.table = t, !.success = TRUE,
                                !.oracle_count = Len(oracle_data),
                                !.meilisearch_count =
                                   Cardinality(DOMAIN tgt[t].docs) + Len(documents)]
          ELSE Raised("full_sync", t, full_sync_except(e), e)]

full_sync(t, recreate, fail_at, e, src, tgt) ==
  LET ix1 == Recreated(tgt[t], recreate, fail_at)
      oracle_data == extract_from_oracle(t, src)
      documents == transform_to_documents(oracle_data)
      ix2 == IF fail_at \in {"delete", "create", "extract", "write"} THEN ix1
             ELSE [ix1 EXCEPT !.docs = ApplyDocuments(@, documents)]
  IN [index |-> ix2,
      result |->
        IF fail_at = "none"
          THEN [NoResult EXCEPT !.status = "returned", !.op = "full_sync",
                                !.table = t, !.success = TRUE,
                                !.oracle_count = Len(oracle_data),
                                !.meilisearch_count = Cardinality(DOMAIN ix2.docs)]
          ELSE Raised("full_sync", t, full_sync_except(e), e)]

FullSync(t, recreate, fail_at, e) ==
  /\ pc = "idle"
  /\ CanFail(target[t], recreate, fail_at, e)
  /\ LET out == full_sync(t, recreate, fail_at, e, source, target)
     IN /\ target' = [target EXCEPT ![t] = out.index]
        /\ result' = out.result
  /\ io_log' = full_sync_requests(t, recreate, fail_at, e, source, target)
  /\ frame' = [IdleFrame EXCEPT !.table = t, !.pre = last_sync_timestamps,
                                !.recreate_index = recreate]
  /\ pc' = "done"
  /\ UNCHANGED <<now, source, last_sync_timestamps, stored_log, loopVars, extraVars>>

FailPoints == {"none", "delete", "create", "extract", "write", "stats"}
AllErrors == ExtractionErrors \cup WriteErrors \cup {IndexNotFound, NoException}

\* the caller takes the outcome and is free to call again
Return ==
  /\ pc = "done"
  /\ pc' = "idle"
  /\ frame' = IdleFrame
  /\ result' = NoResult
  /\ batch' = IdleBatch
  /\ retry' = IdleRetry
  /\ calls' = <<>>
  /\ io_log' = <<>>
  /\ UNCHANGED <<now, source, target, last_sync_timestamps, stored_log, extraVars>>

Next ==
  \/ Tick
  \/ \E t \in SyncTables, r \in RowIds : ModifyRow(t, r)
  \/ \E t \in Tables, ts \in 0..MaxTime : SaveLastSyncTimestamp(t, ts)
  \/ \E t \in SyncTables : IncrementalSyncNoWatermark(t)
  \/ \E t \in SyncTables : IncrementalSyncExtract(t)
  \/ \E t \in SyncTables : IncrementalSyncExtractFails(t)
  \/ IncrementalSyncUpsertFails
  \/ IncrementalSyncFinish
  \/ \E t \in SyncTables, recreate \in BOOLEAN, fail_at \in FailPoints, e \in AllErrors :
       FullSync(t, recreate, fail_at, e)
  \/ Return

Spec == Init /\ [][Next]_vars

\* -------------------------------------------------------- full_sync_batch
\* one entry of calls
Call(name, documents, raised, delay) ==
  [call |-> name, documents |-> documents, raised |-> raised, delay |-> delay]

Min(a, b) == IF a <= b THEN a ELSE b

\* a slice that runs one document into the next batch
BatchSlice_Overlaps(documents, i, batch_size) ==
  SubSeq(documents, i + 1, Min(i + batch_size + 1, Len(documents)))

\* line 301: documents[i:i + batch_size]
BatchSlice(documents, i, batch_size) ==
  SubSeq(documents, i + 1, Min(i + batch_size, Len(documents)))

\* lines 299-312: one iteration of the loop; e is what insert_documents_batch
\* raised, NoException when it returned
AfterBatch_CountsBatchSize(b, e) ==
  LET number == b.batch_number + 1
      slice == BatchSlice(b.documents, b.i, b.batch_size)
  IN IF e = NoException
       THEN [b EXCEPT !.batch_number = number, !.i = @ + b.batch_size,
                      !.successful_records = @ + b.batch_size]
       ELSE [b EXCEPT !.batch_number = number, !.i = @ + b.batch_size,
                      !.failed_batches = @ + 1,
                      !.failed_batch_info =
                         Append(@, [batch_number |-> number, error |-> Str(e),
                                    record_count |-> Len(slice)])]

AfterBatch_AbortsOnFailure(b, e) ==
  LET number == b.batch_number + 1
      slice == BatchSlice(b.documents, b.i, b.batch_size)
  IN IF e = NoException
       THEN [b EXCEPT !.batch_number = number, !.i = @ + b.batch_size,
                      !.successful_records = @ + Len(slice)]
       ELSE [b EXCEPT !.batch_number = number, !.i = Len(b.documents),
                      !.failed_batches = @ + 1,
                      !.failed_batch_info =
                         Append(@, [batch_number |-> number, error |-> Str(e),
                                    record_count |-> Len(slice)])]

AfterBatch_ZeroBasedNumber(b, e) ==
  LET number == b.batch_number + 1
      slice == BatchSlice(b.documents, b.i, b.batch_size)
  IN IF e = NoException
       THEN [b EXCEPT !.batch_number = number, !.i = @ + b.batch_size,
                      !.successful_records = @ + Len(slice)]
       ELSE [b EXCEPT !.batch_number = number, !.i = @ + b.batch_size,
                      !.failed_batches = @ + 1,
                      !.failed_batch_info =
                         Append(@, [batch_number |-> b.batch_number, error |-> Str(e),
                                    record_count |-> Len(slice)])]

AfterBatch(b, e) ==
  LET number == b.batch_number + 1
      slice == BatchSlice(b.documents, b.i, b.batch_size)
  IN IF e = NoException
       THEN [b EXCEPT !.batch_number = number, !.i = @ + b.batch_size,
                      !.successful_records = @ + Len(slice)]
       ELSE [b EXCEPT !.batch_number = number, !.i = @ + b.batch_size,
                      !.failed_batches = @ + 1,
                      !.failed_batch_info =
                         Append(@, [batch_number |-> number, error |-> Str(e),
                                    record_count |-> Len(slice)])]

\* lines 280-295: optional recreation of the index, extraction, and the
\* locals before the loop; a failure of one of these calls is not caught
FullSyncBatchStart(t, batch_size, recreate, fail_at, e) ==
  /\ pc = "idle"
  /\ fail_at \in {"none", "delete", "create", "extract"}
  /\ fail_at = "delete" => recreate /\ target[t].exists /\ e \in WriteErrors
  /\ fail_at = "create" => recreate /\ e \in WriteErrors
  /\ fail_at = "extract" => e \in ExtractionErrors
  /\ fail_at = "none" => e = NoException
  /\ target' = [target EXCEPT ![t] = Recreated(@, recreate, fail_at)]
  /\ frame' = [IdleFrame EXCEPT !.table = t, !.pre = last_sync_timestamps,
                                !.recreate_index = recreate]
  /\ calls' = <<>>
  /\ IF fail_at = "none"
       THEN /\ LET documents == transform_to_documents(extract_from_oracle(t, source))
               IN batch' = [index_name |-> t, batch_size |-> batch_size,
                            documents |-> documents, i |-> 0, batch_number |-> 0,
                            total_records |-> Len(documents),
                            successful_records |-> 0, failed_batches |-> 0,
                            failed_batch_info |-> <<>>]
            /\ pc' = "batch_loop"
            /\ UNCHANGED result
       ELSE /\ result' = Raised("full_sync_batch", t, e, e)
            /\ pc' = "done"
            /\ UNCHANGED batch
  /\ io_log' = recreate_requests(target[t], t, recreate, fail_at, e)
                  \o extract_requests(t, fail_at, e)
  /\ UNCHANGED <<now, source, last_sync_timestamps, stored_log, retry, extraVars>>

\* lines 299-312: the next batch is written (insert_documents_batch returns,
\* or raises e, which is caught)
FullSyncBatchWrite(e) ==
  /\ pc = "batch_loop"
  /\ batch.i < Len(batch.documents)
  /\ LET t == batch.index_name
         slice == BatchSlice(batch.documents, batch.i, batch.batch_size)
     IN /\ IF target[t].exists THEN e \in WriteErrors \cup {NoException}
                               ELSE e = IndexNotFound
        /\ target' = IF e = NoException
                       THEN [target EXCEPT ![t].docs = ApplyDocuments(@, slice)]
                       ELSE target
        /\ calls' = Append(calls, Call("insert_documents_batch", slice, e, 0))
        /\ io_log' = io_log \o insert_documents_batch(t, slice, e)
  /\ batch' = AfterBatch(batch, e)
  /\ UNCHANGED <<now, source, last_sync_timestamps, pc, frame, result, stored_log, retry, extraVars>>

\* lines 314-323: the loop is over, the result dict is returned
FullSyncBatchReturn ==
  /\ pc = "batch_loop"
  /\ batch.i >= Len(batch.documents)
  /\ result' = [NoResult EXCEPT !.status = "returned", !.op = "full_sync_batch",
                                !.table = batch.index_name,
                                !.success = (batch.failed_batches = 0),
                                !.total_records = batch.total_records,
                                !.successful_records = batch.successful_records,
                                !.failed_batches = batch.failed_batches,
                                !.failed_batch_info = batch.failed_batch_info]
  /\ pc' = "done"
  /\ UNCHANGED <<now, source, target, last_sync_timestamps, frame, stored_log, loopVars, io_log, extraVars>>

InitBatch ==
  /\ InitState
  /\ cron = NoCron
  /\ InitScheduler("SyncEngine", {"main"})
  /\ now = 0
  /\ \E n \in 0..MaxRecords : source = [t \in Tables |-> [r \in 1..n |-> 0]]
  /\ \E ex \in BOOLEAN : target = [t \in Tables |-> [exists |-> ex, docs |-> NoDocs]]
  /\ last_sync_timestamps = [t \in {} |-> 0]
  /\ pc = "idle"
  /\ frame = IdleFrame
  /\ result = NoResult
  /\ stored_log = [t \in Tables |-> <<>>]
  /\ batch = IdleBatch
  /\ retry = IdleRetry
  /\ calls = <<>>
  /\ io_log = <<>>

NextBatch ==
  \/ \E t \in SyncTables, batch_size \in 1..MaxBatchSize, recreate \in BOOLEAN,
        fail_at \in FailPoints, e \in AllErrors :
       FullSyncBatchStart(t, batch_size, recreate, fail_at, e)
  \/ \E e \in AllErrors : FullSyncBatchWrite(e)
  \/ FullSyncBatchReturn
  \/ Return

SpecBatch == InitBatch /\ [][NextBatch]_vars

\* --------------------------------------------------- full_sync_with_retry
RECURSIVE Pow2(_)
Pow2(n) == IF n <= 0 THEN 1 ELSE 2 * Pow2(n - 1)

\* line 254: delay = 2 ** (retry_count - 1), in seconds
Backoff_OffByOne(retry_count) == Pow2(retry_count)

Backoff(retry_count) == Pow2(retry_count - 1)

\* lines 248-249: retry_count += 1; last_exception = e
AfterFailure_GivesUpOnExtraction(r, e) ==
  [r EXCEPT !.retry_count = IF e \in ExtractionErrors THEN r.max_retries ELSE @ + 1,
            !.last_exception = e]

AfterFailure_KeepsFirstError(r, e) ==
  [r EXCEPT !.retry_count = @ + 1,
            !.last_exception = IF @ = NoException THEN e ELSE @]

AfterFailure_CountsTwice(r, e) ==
  [r EXCEPT !.retry_count = @ + 2, !.last_exception = e]

AfterFailure(r, e) ==
  [r EXCEPT !.retry_count = @ + 1, !.last_exception = e]

\* lines 258-264: the dict returned when the loop is left without a success
RetryFailure_Raises(r, clock) ==
  Raised("full_sync_with_retry", r.index_name, r.last_exception, r.last_exception)

RetryFailure_EmptyError(r, clock) ==
  [NoResult EXCEPT !.status = "returned", !.op = "full_sync_with_retry",
                   !.table = r.index_name, !.success = FALSE,
                   !.retry_count = r.retry_count,
                   !.error = IF r.last_exception = NoException THEN ""
                             ELSE Str(r.last_exception),
                   !.index_name = r.index_name,
                   !.timestamp = IsoFormat(clock)]

RetryFailure(r, clock) ==
  [NoResult EXCEPT !.status = "returned", !.op = "full_sync_with_retry",
                   !.table = r.index_name, !.success = FALSE,
                   !.retry_count = r.retry_count,
                   !.error = Str(r.last_exception),
                   !.index_name = r.index_name,
                   !.timestamp = IsoFormat(clock)]

\* lines 237-240: the locals before the loop
FullSyncWithRetryStart(t, recreate, max_retries) ==
  /\ pc = "idle"
  /\ now < MaxTime
  /\ retry' = [index_name |-> t, recreate_index |-> recreate,
               max_retries |-> max_retries, retry_count |-> 0,
               last_exception |-> NoException]
  /\ frame' = [IdleFrame EXCEPT !.table = t, !.pre = last_sync_timestamps]
  /\ calls' = <<>>
  /\ pc' = "retry_loop"
  /\ UNCHANGED <<now, source, target, last_sync_timestamps, result, stored_log, batch, io_log, extraVars>>

\* lines 240-251: one attempt; full_sync returns, or raises and the failure
\* is counted, which ends the loop when max_retries is reached
FullSyncWithRetryAttempt(fail_at, e) ==
  /\ pc = "retry_loop"
  /\ retry.retry_count < retry.max_retries
  /\ LET t == retry.index_name
         out == full_sync(t, retry.recreate_index, fail_at, e, source, target)
         failed == AfterFailure(retry, out.result.exc)
     IN /\ CanFail(target[t], retry.recreate_index, fail_at, e)
        /\ target' = [target EXCEPT ![t] = out.index]
        /\ calls' = Append(calls, Call("full_sync", <<>>, out.result.exc, 0))
        /\ io_log' = full_sync_requests(t, retry.recreate_index, fail_at, e,
                                        source, target)
        /\ IF out.result.status = "returned"
             THEN /\ result' = [out.result EXCEPT !.op = "full_sync_with_retry",
                                                  !.retry_count = retry.retry_count]
                  /\ pc' = "done"
                  /\ UNCHANGED retry
             ELSE /\ retry' = failed
                  /\ IF failed.retry_count >= failed.max_retries
                       THEN /\ result' = RetryFailure(failed, now)
                            /\ pc' = "done"
                       ELSE /\ pc' = "retry_sleep"
                            /\ UNCHANGED result
  /\ UNCHANGED <<now, source, last_sync_timestamps, frame, stored_log, batch, extraVars>>

\* lines 253-255: the backoff sleep between two attempts
FullSyncWithRetrySleep ==
  /\ pc = "retry_sleep"
  /\ LET delay == Backoff(retry.retry_count)
     IN /\ now' = now + delay * TicksPerSec
        /\ calls' = Append(calls, Call("sleep", <<>>, NoException, delay))
  /\ pc' = "retry_loop"
  /\ UNCHANGED <<source, target, last_sync_timestamps, frame, result, stored_log,
                 batch, retry, io_log, extraVars>>

\* lines 240, 258-264: the loop condition is false on entry (max_retries <= 0)
FullSyncWithRetryNoAttempt ==
  /\ pc = "retry_loop"
  /\ ~(retry.retry_count < retry.max_retries)
  /\ result' = RetryFailure(retry, now)
  /\ pc' = "done"
  /\ UNCHANGED <<now, source, target, last_sync_timestamps, frame, stored_log, loopVars, io_log, extraVars>>

InitRetry ==
  /\ InitState
  /\ cron = NoCron
  /\ InitScheduler("SyncEngine", {"main"})
  /\ now = 0
  /\ source = [t \in Tables |-> [r \in RowIds |-> 0]]
  /\ \E ex \in BOOLEAN : target = [t \in Tables |-> [exists |-> ex, docs |-> NoDocs]]
  /\ last_sync_timestamps = [t \in {} |-> 0]
  /\ pc = "idle"
  /\ frame = IdleFrame
  /\ result = NoResult
  /\ stored_log = [t \in Tables |-> <<>>]
  /\ batch = IdleBatch
  /\ retry = IdleRetry
  /\ calls = <<>>
  /\ io_log = <<>>

NextRetry ==
  \/ \E t \in SyncTables, recreate \in BOOLEAN, max_retries \in (-1)..MaxRetries :
       FullSyncWithRetryStart(t, recreate, max_retries)
  \/ \E fail_at \in FailPoints, e \in AllErrors : FullSyncWithRetryAttempt(fail_at, e)
  \/ FullSyncWithRetrySleep
  \/ FullSyncWithRetryNoAttempt
  \/ Return

SpecRetry == InitRetry /\ [][NextRetry]_vars

\* ------------------------------------------------------------ properties
\* a step in which incremental_sync returns its result dict
IncrementalSyncReturns ==
  /\ pc = "inc_extracted"
  /\ pc' = "done"
  /\ result'.status = "returned"

\* the target holds row r of table t as the source has it
Delivered(t, r, src, tgt) ==
  /\ r \in DOMAIN tgt[t].docs
  /\ tgt[t].docs[r] = RowDict(t, r, src)

\* C1: when incremental_sync returns successfully no source change has been
\* skipped: every row modified after the watermark the pass started from and
\* at or before the newly stored watermark, as the next extraction query will
\* read it, is in the target (an existing index) with that modification.
C1_NoChangeSkipped ==
  [][(IncrementalSyncReturns /\ target[frame.table].exists) =>
       \A r \in RowIds :
         LET t == frame.table
             m == source'[t][r]
         IN (m > frame.last_sync
               /\ m <= ToTimestamp(Strftime(last_sync_timestamps'[t])))
              => Delivered(t, r, source', target')]_vars

\* C2: the watermarks stored by successive successful incremental_sync calls
\* on a table form a non-decreasing sequence.
C2_WatermarkMonotonic ==
  \A t \in Tables :
    \A i, j \in 1..Len(stored_log[t]) :
      i <= j => stored_log[t][i] <= stored_log[t][j]

C2_Witness ==
  /\ Len(stored_log["users"]) >= 2
  /\ stored_log["users"][1] < stored_log["users"][2]

\* C3: an incremental_sync whose extraction returned zero rows returns
\* success with changed_count 0 and replaces the table's watermark with the
\* current time, which is later than the watermark stored before the call.
C3_ZeroChangeAdvances ==
  [][(IncrementalSyncReturns /\ frame.changed_records = <<>>) =>
       LET t == frame.table
       IN /\ result'.success
          /\ result'.changed_count = 0
          /\ last_sync_timestamps'[t] = now
          /\ last_sync_timestamps'[t] > frame.pre[t]]_vars

C3_Witness ==
  /\ pc = "done"
  /\ result.status = "returned"
  /\ result.op = "incremental_sync"
  /\ result.changed_count = 0
  /\ frame.changed_records = <<>>

\* C4: incremental_sync on a table that has no stored watermark completes
\* successfully and creates the table's first watermark (no call to the
\* source or to the target having failed).
C4_FirstSyncSucceeds ==
  (/\ pc = "done"
   /\ result.op = "incremental_sync"
   /\ result.table \notin DOMAIN frame.pre
   /\ result.origin \notin ExtractionErrors \cup WriteErrors \cup {IndexNotFound})
  => /\ result.status = "returned"
     /\ result.success
     /\ result.table \in DOMAIN last_sync_timestamps

\* C5: an exception raised by the extraction or by the target write inside
\* full_sync or incremental_sync reaches the caller unchanged, and a failed
\* incremental_sync leaves the table's watermark as it was before the call.
C5_ErrorsPropagate ==
  (pc = "done" /\ result.status = "raised")
  => /\ result.exc = result.origin
     /\ result.op = "incremental_sync" =>
          get_last_sync_timestamp(last_sync_timestamps, result.table)
            = get_last_sync_timestamp(frame.pre, result.table)

C5_Witness ==
  /\ pc = "done"
  /\ result.status = "raised"
  /\ result.op = "incremental_sync"
  /\ result.origin \in WriteErrors
  /\ frame.changed_records # <<>>
  /\ get_last_sync_timestamp(frame.pre, result.table) < now

\* a state in which full_sync_batch has returned its result dict
BatchReturned ==
  /\ pc = "done"
  /\ result.status = "returned"
  /\ result.op = "full_sync_batch"

RECURSIVE SumRecordCounts(_)
SumRecordCounts(info) ==
  IF info = <<>> THEN 0
  ELSE Head(info).record_count + SumRecordCounts(Tail(info))

Ceil(a, b) == (a + b - 1) \div b

\* C6: when full_sync_batch returns, total_records is the number R of
\* extracted records, successful_records plus the record counts of
\* failed_batch_info add up to R, and failed_batches is the length of
\* failed_batch_info.
C6_BatchAccounting ==
  BatchReturned =>
    LET R == Len(source[result.table])
    IN /\ result.total_records = R
       /\ result.successful_records + SumRecordCounts(result.failed_batch_info) = R
       /\ result.failed_batches = Len(result.failed_batch_info)

C6_Witness ==
  /\ BatchReturned
  /\ result.failed_batches >= 1
  /\ result.successful_records >= 1
  /\ result.total_records % batch.batch_size # 0
  /\ calls[Len(calls)].raised = NoException

\* C7: in full_sync_batch a failed write does not abort the operation: the
\* writes made so far are the first batches of the partition, one write per
\* batch in ascending order, and when the call returns their number is
\* ceil(R / B) whichever batches failed.
C7_EveryBatchAttemptedOnce ==
  (pc = "batch_loop" \/ BatchReturned) =>
    LET R == Len(batch.documents)
        B == batch.batch_size
    IN /\ Len(calls) <= Ceil(R, B)
       /\ \A k \in 1..Len(calls) :
            /\ calls[k].call = "insert_documents_batch"
            /\ calls[k].documents =
                 SubSeq(batch.documents, (k - 1) * B + 1, Min(k * B, R))
       /\ BatchReturned => Len(calls) = Ceil(R, B)

C7_Witness ==
  /\ BatchReturned
  /\ Len(calls) = 3
  /\ calls[1].raised # NoException
  /\ calls[2].raised # NoException
  /\ calls[3].raised = NoException

\* the failed_batch_info entries the writes of calls[from..] account for
RECURSIVE FailedWrites(_, _)
FailedWrites(log, from) ==
  IF from > Len(log) THEN <<>>
  ELSE IF log[from].raised = NoException THEN FailedWrites(log, from + 1)
  ELSE <<[batch_number |-> from, error |-> Str(log[from].raised),
          record_count |-> Len(log[from].documents)]>>
         \o FailedWrites(log, from + 1)

\* C8: failed_batch_info has one entry for each batch whose write failed and
\* none for the others, in ascending batch_number, with the 1-based position
\* of the batch, its number of documents and the text of the failure; success
\* is true exactly when no batch failed.
C8_FailedBatchInfo ==
  BatchReturned =>
    /\ result.failed_batch_info = FailedWrites(calls, 1)
    /\ result.success <=> (\A k \in 1..Len(calls) : calls[k].raised = NoException)

C8_Witness ==
  /\ BatchReturned
  /\ Len(calls) = 3
  /\ calls[1].raised = NoException
  /\ calls[2].raised # NoException
  /\ calls[3].raised = NoException
  /\ Len(result.failed_batch_info) = 1
  /\ ~result.success

\* a state in which full_sync_with_retry(max_retries >= 1) has ended
RetryEnded ==
  /\ pc = "done"
  /\ result.op = "full_sync_with_retry"
  /\ retry.max_retries >= 1

\* the positions of calls that are full_sync attempts
Attempts == {k \in 1..Len(calls) : calls[k].call = "full_sync"}

\* the positions of calls that are sleeps
Sleeps == {k \in 1..Len(calls) : calls[k].call = "sleep"}

\* C9: full_sync_with_retry with max_retries = M >= 1 makes at most M
\* full_sync attempts; when every attempt fails it makes exactly M and returns,
\* without raising, success = false, retry_count = M, the text of the last
\* failure as error, the index name and a timestamp.
C9_RetryBound ==
  /\ (pc \in {"retry_loop", "retry_sleep", "done"} /\ retry.max_retries >= 1)
       => Cardinality(Attempts) <= retry.max_retries
  /\ RetryEnded =>
       /\ result.status = "returned"
       /\ (\A k \in Attempts : calls[k].raised # NoException) =>
            /\ Cardinality(Attempts) = retry.max_retries
            /\ ~result.success
            /\ result.retry_count = retry.max_retries
            /\ result.error = Str(calls[Len(calls)].raised)
            /\ result.index_name = retry.index_name
            /\ result.timestamp = IsoFormat(now)

C9_Witness ==
  /\ RetryEnded
  /\ retry.max_retries = 3
  /\ ~result.success
  /\ calls[1].raised \in ExtractionErrors
  /\ calls[Len(calls)].raised \in WriteErrors

\* C10: a sleep follows the k-th failed attempt exactly when k < max_retries
\* and lasts 2^(k-1) seconds; nothing is slept after the last failed attempt
\* or after a success, so a run whose max_retries attempts all fail sleeps
\* max_retries - 1 times, for 1, 2, 4, ... seconds in that order.
C10_BackoffSchedule ==
  (pc \in {"retry_loop", "retry_sleep", "done"} /\ retry.max_retries >= 1) =>
    /\ \A p \in Sleeps :
         LET k == Cardinality({a \in Attempts : a < p})
         IN /\ p > 1
            /\ calls[p - 1].call = "full_sync"
            /\ calls[p - 1].raised # NoException
            /\ k < retry.max_retries
            /\ calls[p].delay = Pow2(k - 1)
    /\ \A a \in Attempts :
         LET k == Cardinality({b \in Attempts : b <= a})
         IN (calls[a].raised # NoException /\ k < retry.max_retries
               /\ pc \in {"retry_loop", "done"})
              => (a + 1) \in Sleeps
    /\ pc = "done" => calls[Len(calls)].call = "full_sync"
    /\ (pc = "done" /\ \A a \in Attempts : calls[a].raised # NoException) =>
         /\ Cardinality(Sleeps) = retry.max_retries - 1
         /\ \A j \in 1..(retry.max_retries - 1) :
              /\ (2 * j) \in Sleeps
              /\ calls[2 * j].delay = Pow2(j - 1)

C10_Witness ==
  /\ RetryEnded
  /\ retry.max_retries = 3
  /\ ~result.success
  /\ Len(calls) = 5
  /\ calls[2].delay = 1
  /\ calls[4].delay = 2

\* ------------------------------------------------------- save_sync_status
Statuses == {"success", "failed", "partial"}

\* lines 358-364: the dict of one entry
SyncStatus(t, start_time, end_time, record_count, status) ==
  [table_name |-> t, start_time |-> start_time, end_time |-> end_time,
   record_count |-> record_count, status |-> status]

\* the entry replaces the list of the table
save_sync_status_KeepsLatest(hist, t, start_time, end_time, record_count, status) ==
  LET entry == SyncStatus(t, start_time, end_time, record_count, status)
  IN [x \in (DOMAIN hist) \cup {t} |-> IF x = t THEN <<entry>> ELSE hist[x]]

\* lines 355-364: the list of the table is created when missing and the entry
\* is appended to it
save_sync_status(hist, t, start_time, end_time, record_count, status) ==
  LET entry == SyncStatus(t, start_time, end_time, record_count, status)
      old == IF t \in DOMAIN hist THEN hist[t] ELSE <<>>
  IN [x \in (DOMAIN hist) \cup {t} |-> IF x = t THEN Append(old, entry) ELSE hist[x]]

\* the number of entries of all the lists together
HistorySize(hist) ==
  Cardinality(UNION {{<<t, k>> : k \in 1..Len(hist[t])} : t \in DOMAIN hist})

\* the caller records the status of a pass that is over
SaveSyncStatus(t, start_time, end_time, record_count, status) ==
  /\ pc = "idle"
  /\ start_time <= end_time
  /\ end_time <= now
  /\ HistorySize(sync_history) < MaxHistory
  /\ sync_history' =
       save_sync_status(sync_history, t, start_time, end_time, record_count, status)
  /\ saved' = Append(saved, SyncStatus(t, start_time, end_time, record_count, status))
  /\ query' = NoQuery
  /\ UNCHANGED <<engineVars, state_file, persisted, prev, schedVars, cron>>

\* ------------------------------------------- the four sync calls together
\* one engine whose caller uses every sync operation, one call at a time,
\* against a source nobody else modifies; one tick ago the last row was
\* modified, the others were not modified since time 0
InitOps ==
  /\ InitState
  /\ cron = NoCron
  /\ InitScheduler("SyncEngine", {"main"})
  /\ now = 1
  /\ source = [t \in Tables |-> [r \in RowIds |-> IF r = 1 THEN 0 ELSE 1]]
  /\ \E ex \in BOOLEAN : target = [t \in Tables |-> [exists |-> ex, docs |-> NoDocs]]
  /\ last_sync_timestamps = [t \in {} |-> 0]
  /\ pc = "idle"
  /\ frame = IdleFrame
  /\ result = NoResult
  /\ stored_log = [t \in Tables |-> <<>>]
  /\ batch = IdleBatch
  /\ retry = IdleRetry
  /\ calls = <<>>
  /\ io_log = <<>>

NextOps ==
  \/ \E t \in Tables, ts \in 0..MaxTime : SaveLastSyncTimestamp(t, ts)
  \/ \E t \in SyncTables : IncrementalSyncNoWatermark(t)
  \/ \E t \in SyncTables : IncrementalSyncExtract(t)
  \/ \E t \in SyncTables : IncrementalSyncExtractFails(t)
  \/ IncrementalSyncUpsertFails
  \/ IncrementalSyncFinish
  \/ \E t \in SyncTables, recreate \in BOOLEAN, fail_at \in FailPoints, e \in AllErrors :
       FullSync(t, recreate, fail_at, e)
  \/ \E t \in SyncTables, batch_size \in 1..MaxBatchSize, recreate \in BOOLEAN,
        fail_at \in FailPoints, e \in AllErrors :
       FullSyncBatchStart(t, batch_size, recreate, fail_at, e)
  \/ \E e \in AllErrors : FullSyncBatchWrite(e)
  \/ FullSyncBatchReturn
  \/ \E t \in SyncTables, recreate \in BOOLEAN, max_retries \in 0..MaxRetries :
       FullSyncWithRetryStart(t, recreate, max_retries)
  \/ \E fail_at \in FailPoints, e \in AllErrors : FullSyncWithRetryAttempt(fail_at, e)
  \/ FullSyncWithRetrySleep
  \/ FullSyncWithRetryNoAttempt
  \/ Return

SpecOps == InitOps /\ [][NextOps]_vars

\* the same caller, who also records statuses; watermarks are saved as time
\* 0, the batched and the retrying calls are made with one batch size and
\* with max_retries 0 or 2
NextFrame ==
  \/ \E t \in Tables : SaveLastSyncTimestamp(t, 0)
  \/ \E t \in SyncTables, status \in {"success", "failed"} :
       SaveSyncStatus(t, 0, 0, 0, status)
  \/ \E t \in SyncTables : IncrementalSyncNoWatermark(t)
  \/ \E t \in SyncTables : IncrementalSyncExtract(t)
  \/ \E t \in SyncTables : IncrementalSyncExtractFails(t)
  \/ IncrementalSyncUpsertFails
  \/ IncrementalSyncFinish
  \/ \E t \in SyncTables, recreate \in BOOLEAN, fail_at \in FailPoints, e \in AllErrors :
       FullSync(t, recreate, fail_at, e)
  \/ \E t \in SyncTables, recreate \in BOOLEAN, fail_at \in FailPoints, e \in AllErrors :
       FullSyncBatchStart(t, 1, recreate, fail_at, e)
  \/ \E e \in AllErrors : FullSyncBatchWrite(e)
  \/ FullSyncBatchReturn
  \/ \E t \in SyncTables, recreate \in BOOLEAN, max_retries \in {0, 2} :
       FullSyncWithRetryStart(t, recreate, max_retries)
  \/ \E fail_at \in FailPoints, e \in AllErrors : FullSyncWithRetryAttempt(fail_at, e)
  \/ FullSyncWithRetrySleep
  \/ FullSyncWithRetryNoAttempt
  \/ Return

SpecFrame == InitOps /\ [][NextFrame]_vars

\* ------------------------------------ persist_sync_state, load_sync_state
\* datetime.fromisoformat: the datetime a seconds and sub-second text denotes
FromIsoFormat(text) == text[1] * TicksPerSec + text[2]

\* the content written to the state file: table name -> ISO-8601 text, for
\* the whole watermark map
persist_sync_state_SecondsOnly(map) ==
  [t \in DOMAIN map |-> <<Strftime(map[t]), 0>>]

persist_sync_state(map) == [t \in DOMAIN map |-> IsoFormat(map[t])]

\* the watermark map read back from the content of the state file
load_sync_state(data) == [t \in DOMAIN data |-> FromIsoFormat(data[t])]

\* persist_sync_state(): the file is created or overwritten
PersistSyncState ==
  /\ pc = "idle"
  /\ state_file' = [exists |-> TRUE, data |-> persist_sync_state(last_sync_timestamps)]
  /\ persisted' = last_sync_timestamps
  /\ UNCHANGED <<engineVars, sync_history, prev, schedVars, saved, cron, query>>

\* load_sync_state() on an existing file: the in-memory map is replaced
LoadSyncState ==
  /\ pc = "idle"
  /\ state_file.exists
  /\ last_sync_timestamps' = load_sync_state(state_file.data)
  /\ frame' = [IdleFrame EXCEPT !.pre = last_sync_timestamps]
  /\ result' = [NoResult EXCEPT !.status = "returned", !.op = "load_sync_state"]
  /\ pc' = "done"
  /\ UNCHANGED <<now, source, target, stored_log, loopVars, io_log, extraVars>>

\* the process ends and a new one constructs its SyncEngine: empty watermark
\* map and history, the state file stays
NewEngine ==
  /\ pc = "idle"
  /\ last_sync_timestamps' = [t \in {} |-> 0]
  /\ sync_history' = [t \in {} |-> <<>>]
  /\ saved' = <<>>
  /\ query' = NoQuery
  /\ UNCHANGED <<now, source, target, pc, frame, result, stored_log, loopVars,
                 io_log, state_file, persisted, prev, schedVars, cron, passes>>

NextPersist ==
  \/ Tick
  \/ \E t \in Tables, ts \in 0..MaxTime : SaveLastSyncTimestamp(t, ts)
  \/ PersistSyncState
  \/ NewEngine
  \/ LoadSyncState
  \/ Return

SpecPersist == Init /\ [][NextPersist]_vars

\* C13: after save_last_sync_timestamp(t, ts), persist_sync_state(), a fresh
\* engine and load_sync_state(), get_last_sync_timestamp(t) is ts: the file
\* maps every table of the persisted map to the ISO text of its watermark and
\* of no other table, and a load leaves in memory exactly the map that was
\* persisted, whatever the engine held before.
C13_PersistenceRoundTrip ==
  /\ state_file.exists =>
       /\ DOMAIN state_file.data = DOMAIN persisted
       /\ \A t \in DOMAIN persisted : state_file.data[t] = IsoFormat(persisted[t])
  /\ (pc = "done" /\ result.op = "load_sync_state") =>
       \A t \in Tables :
         get_last_sync_timestamp(last_sync_timestamps, t)
           = get_last_sync_timestamp(persisted, t)

C13_Witness ==
  /\ pc = "done"
  /\ result.op = "load_sync_state"
  /\ get_last_sync_timestamp(last_sync_timestamps, "users") % TicksPerSec = 1
  /\ "orders" \in DOMAIN frame.pre
  /\ "orders" \notin DOMAIN last_sync_timestamps

\* ------------------------------------------------- full_sync, repeatedly
\* another session deletes the last row of the table; a sync call being one
\* step, this happens between two calls
DeleteRow(t) ==
  /\ pc = "idle"
  /\ Len(source[t]) > 0
  /\ source' = [source EXCEPT ![t] = SubSeq(@, 1, Len(@) - 1)]
  /\ UNCHANGED <<now, target, last_sync_timestamps, pc, frame, result, stored_log,
                 loopVars, io_log, extraVars>>

\* the caller takes the outcome, keeps it to compare it with the next one,
\* and is free to call again
ReturnAndRemember ==
  /\ pc = "done"
  /\ prev' = [result |-> result, recreate_index |-> frame.recreate_index,
              source |-> source]
  /\ pc' = "idle"
  /\ frame' = IdleFrame
  /\ result' = NoResult
  /\ batch' = IdleBatch
  /\ retry' = IdleRetry
  /\ calls' = <<>>
  /\ io_log' = <<>>
  /\ UNCHANGED <<now, source, target, last_sync_timestamps, stored_log,
                 sync_history, state_file, persisted, schedVars, saved, cron,
                 query, passes>>

NextFull ==
  \/ \E t \in SyncTables : DeleteRow(t)
  \/ \E t \in SyncTables, recreate \in BOOLEAN, fail_at \in FailPoints, e \in AllErrors :
       FullSync(t, recreate, fail_at, e)
  \/ ReturnAndRemember

SpecFull == InitBatch /\ [][NextFull]_vars

\* a state in which full_sync has ended
FullSyncEnded ==
  /\ pc = "done"
  /\ result.op = "full_sync"

\* C14: full_sync returns success = true whenever none of its steps raised,
\* also when the document count read back differs from the number of rows
\* extracted; oracle_count is the number of rows extracted and
\* meilisearch_count the document count of the index read after the write.
C14_SuccessIsAbsenceOfException ==
  FullSyncEnded =>
    LET t == result.table
    IN /\ result.origin = NoException <=> result.status = "returned"
       /\ result.status = "returned" =>
            /\ result.success
            /\ result.oracle_count = Len(source[t])
            /\ result.meilisearch_count = Cardinality(DOMAIN target[t].docs)

C14_Witness ==
  /\ FullSyncEnded
  /\ result.status = "returned"
  /\ result.success
  /\ result.oracle_count >= 1
  /\ result.meilisearch_count > result.oracle_count

SyncCallStep == pc # "idle" \/ pc' # "idle"

\* the step appends one entry to the history of one table
AppendsOneEntry ==
  \E t \in Tables :
    /\ DOMAIN sync_history' = (DOMAIN sync_history) \cup {t}
    /\ \A x \in (DOMAIN sync_history) \ {t} : sync_history'[x] = sync_history[x]
    /\ Len(sync_history'[t]) = 1 + (IF t \in DOMAIN sync_history
                                      THEN Len(sync_history[t]) ELSE 0)
    /\ t \in DOMAIN sync_history =>
         SubSeq(sync_history'[t], 1, Len(sync_history[t])) = sync_history[t]

\* C16: full_sync, full_sync_with_retry and full_sync_batch change neither
\* the watermark map nor the history; incremental_sync on table t changes at
\* most the watermark of t and appends nothing to the history; the history
\* changes only by save_sync_status appending one entry.
C16_Frame ==
  [][/\ SyncCallStep => sync_history' = sync_history
     /\ (SyncCallStep /\ ~(pc = "inc_extracted" /\ pc' = "done")) =>
          last_sync_timestamps' = last_sync_timestamps
     /\ (pc = "inc_extracted" /\ pc' = "done") =>
          /\ DOMAIN last_sync_timestamps'
               \subseteq (DOMAIN last_sync_timestamps) \cup {frame.table}
          /\ \A x \in Tables \ {frame.table} :
               get_last_sync_timestamp(last_sync_timestamps', x)
                 = get_last_sync_timestamp(last_sync_timestamps, x)
     /\ sync_history' # sync_history =>
          /\ ~SyncCallStep
          /\ last_sync_timestamps' = last_sync_timestamps
          /\ AppendsOneEntry]_vars

C16_Witness ==
  /\ pc = "done"
  /\ result.op = "incremental_sync"
  /\ result.status = "returned"
  /\ "orders" \in DOMAIN last_sync_timestamps
  /\ last_sync_timestamps["users"] # frame.pre["users"]
  /\ HistorySize(sync_history) >= 1

\* -------------------------------------------------------------- Scheduler
\* what sync_engine can be: a SyncEngine, or a stand-in whose incremental_sync
\* takes no argument (the Mock of the scheduler test)
EngineKinds == {"SyncEngine", "Mock"}

\* def incremental_sync(self, table_name, primary_key, modified_column)
IncrementalSyncParameters == <<"table_name", "primary_key", "modified_column">>

\* line 58: self.sync_engine.incremental_sync()
RunArguments == <<>>

\* the call binds the parameters of the callee
Binds(eng, args) ==
  IF eng = "SyncEngine" THEN Len(args) = Len(IncrementalSyncParameters)
                        ELSE TRUE

MissingArguments ==
  [type |-> "TypeError",
   msg |-> "incremental_sync() missing 3 required positional arguments"]

\* what incremental_sync itself can raise
SyncErrors == ExtractionErrors \cup WriteErrors \cup {NoneHasNoStrftime}

\* the thread is inside _run
Alive(th) ==
  threads[th].state \in {"check_running", "check_event", "invoke", "syncing", "wait"}

\* start() without the check of line 30
StartCheck_NoCheck(c) ==
  /\ cpc[c] = "idle"
  /\ cpc' = [cpc EXCEPT ![c] = "start_set_running"]
  /\ UNCHANGED <<engineVars, stateVars, saved, cron, query, running, thread, stop_event, threads, engine>>

\* start(), line 30: if self._running:
StartCheck(c) ==
  /\ cpc[c] = "idle"
  /\ cpc' = [cpc EXCEPT ![c] = IF running THEN "start_noop" ELSE "start_set_running"]
  /\ UNCHANGED <<engineVars, stateVars, saved, cron, query, running, thread, stop_event, threads, engine>>

\* line 31: return
StartReturn(c) ==
  /\ cpc[c] = "start_noop"
  /\ cpc' = [cpc EXCEPT ![c] = "idle"]
  /\ UNCHANGED <<engineVars, stateVars, saved, cron, query, running, thread, stop_event, threads, engine>>

\* line 33: self._running = True
StartSetRunning(c) ==
  /\ cpc[c] = "start_set_running"
  /\ running' = TRUE
  /\ cpc' = [cpc EXCEPT ![c] = "start_clear"]
  /\ UNCHANGED <<engineVars, stateVars, saved, cron, query, thread, stop_event, threads, engine>>

\* line 34: self._stop_event.clear()
StartClearEvent(c) ==
  /\ cpc[c] = "start_clear"
  /\ stop_event' = FALSE
  /\ threads' = [th \in DOMAIN threads |-> [threads[th] EXCEPT !.after_signal = 0]]
  /\ cpc' = [cpc EXCEPT ![c] = "start_spawn"]
  /\ UNCHANGED <<engineVars, stateVars, saved, cron, query, running, thread, engine>>

\* lines 35-36: a new Thread object is created, stored and started
StartSpawn(c, th) ==
  /\ cpc[c] = "start_spawn"
  /\ ~Alive(th)
  /\ threads' = [threads EXCEPT ![th] = [NoThread EXCEPT !.state = "check_running"]]
  /\ thread' = th
  /\ cpc' = [cpc EXCEPT ![c] = "idle"]
  /\ UNCHANGED <<engineVars, stateVars, saved, cron, query, running, stop_event, engine>>

\* stop(), line 40: if not self._running:
StopCheck(c) ==
  /\ cpc[c] = "idle"
  /\ cpc' = [cpc EXCEPT ![c] = IF running THEN "stop_clear_running" ELSE "stop_noop"]
  /\ UNCHANGED <<engineVars, stateVars, saved, cron, query, running, thread, stop_event, threads, engine>>

\* line 41: return
StopReturn(c) ==
  /\ cpc[c] = "stop_noop"
  /\ cpc' = [cpc EXCEPT ![c] = "idle"]
  /\ UNCHANGED <<engineVars, stateVars, saved, cron, query, running, thread, stop_event, threads, engine>>

\* stop() that leaves the flag as it is
StopClearRunning_Skips(c) ==
  /\ cpc[c] = "stop_clear_running"
  /\ cpc' = [cpc EXCEPT ![c] = "stop_set_event"]
  /\ UNCHANGED <<engineVars, stateVars, saved, cron, query, running, thread, stop_event, threads, engine>>

\* line 43: self._running = False
StopClearRunning(c) ==
  /\ cpc[c] = "stop_clear_running"
  /\ running' = FALSE
  /\ cpc' = [cpc EXCEPT ![c] = "stop_set_event"]
  /\ UNCHANGED <<engineVars, stateVars, saved, cron, query, thread, stop_event, threads, engine>>

\* line 44: self._stop_event.set()
StopSetEvent(c) ==
  /\ cpc[c] = "stop_set_event"
  /\ stop_event' = TRUE
  /\ cpc' = [cpc EXCEPT ![c] = "stop_join"]
  /\ UNCHANGED <<engineVars, stateVars, saved, cron, query, running, thread, threads, engine>>

\* lines 46-48: join returns because the thread has ended (or there is no
\* thread to join)
StopJoin(c) ==
  /\ cpc[c] = "stop_join"
  /\ thread # 0 => ~Alive(thread)
  /\ thread' = 0
  /\ cpc' = [cpc EXCEPT ![c] = "idle"]
  /\ UNCHANGED <<engineVars, stateVars, saved, cron, query, running, stop_event, threads, engine>>

\* a join without a timeout
StopJoinTimeout_Never(c) ==
  /\ cpc[c] = "stop_join"
  /\ FALSE
  /\ UNCHANGED vars

\* lines 46-48: join returns because its timeout of 5 seconds has passed; a
\* thread outlasts it only inside incremental_sync, the rest of the loop
\* takes no time once the event is set
StopJoinTimeout(c) ==
  /\ cpc[c] = "stop_join"
  /\ thread # 0
  /\ threads[thread].state = "syncing"
  /\ thread' = 0
  /\ cpc' = [cpc EXCEPT ![c] = "idle"]
  /\ UNCHANGED <<engineVars, stateVars, saved, cron, query, running, stop_event, threads, engine>>

\* _run, line 56: while self._running ...
RunCheckRunning(th) ==
  /\ threads[th].state = "check_running"
  /\ threads' = [threads EXCEPT ![th].state =
                   IF running THEN "check_event" ELSE "exited"]
  /\ UNCHANGED <<engineVars, stateVars, saved, cron, query, running, thread, stop_event, cpc, engine>>

\* line 56: ... and not self._stop_event.is_set()
RunCheckEvent(th) ==
  /\ threads[th].state = "check_event"
  /\ threads' = [threads EXCEPT ![th].state =
                   IF stop_event THEN "exited" ELSE "invoke"]
  /\ UNCHANGED <<engineVars, stateVars, saved, cron, query, running, thread, stop_event, cpc, engine>>

\* line 58: the call; when the arguments do not bind the parameters it raises
\* TypeError, which nothing in _run catches
RunInvoke(th) ==
  /\ threads[th].state = "invoke"
  /\ threads' = [threads EXCEPT ![th] =
                   IF Binds(engine, RunArguments)
                     THEN [@ EXCEPT !.state = "syncing", !.invoked = TRUE,
                                    !.args = RunArguments,
                                    !.after_signal = IF stop_event THEN @ + 1 ELSE @]
                     ELSE [@ EXCEPT !.state = "crashed", !.invoked = TRUE,
                                    !.args = RunArguments,
                                    !.exc = MissingArguments,
                                    !.after_signal = IF stop_event THEN @ + 1 ELSE @]]
  /\ UNCHANGED <<engineVars, stateVars, saved, cron, query, running, thread, stop_event, cpc, engine>>

\* a loop that checks its condition again without waiting
RunSyncReturns_SkipsWait(th) ==
  /\ threads[th].state = "syncing"
  /\ threads' = [threads EXCEPT ![th].state = "check_running"]
  /\ UNCHANGED <<engineVars, stateVars, saved, cron, query, running, thread, stop_event, cpc, engine>>

\* line 58: incremental_sync returns
RunSyncReturns(th) ==
  /\ threads[th].state = "syncing"
  /\ threads' = [threads EXCEPT ![th].state = "wait"]
  /\ UNCHANGED <<engineVars, stateVars, saved, cron, query, running, thread, stop_event, cpc, engine>>

\* line 58: incremental_sync raises e, which nothing in _run catches
RunSyncRaises(th, e) ==
  /\ threads[th].state = "syncing"
  /\ threads' = [threads EXCEPT ![th].state = "crashed", ![th].exc = e]
  /\ UNCHANGED <<engineVars, stateVars, saved, cron, query, running, thread, stop_event, cpc, engine>>

\* line 61: self._stop_event.wait(timeout=...) returns because the event is set
RunWaitWoken(th) ==
  /\ threads[th].state = "wait"
  /\ stop_event
  /\ threads' = [threads EXCEPT ![th].state = "check_running"]
  /\ UNCHANGED <<engineVars, stateVars, saved, cron, query, running, thread, stop_event, cpc, engine>>

\* a wait without a timeout
RunWaitTimeout_Never(th) ==
  /\ threads[th].state = "wait"
  /\ FALSE
  /\ UNCHANGED vars

\* line 61: the wait returns because interval_seconds have passed
RunWaitTimeout(th) ==
  /\ threads[th].state = "wait"
  /\ ~stop_event
  /\ threads' = [threads EXCEPT ![th].state = "check_running"]
  /\ UNCHANGED <<engineVars, stateVars, saved, cron, query, running, thread, stop_event, cpc, engine>>

InitSched ==
  /\ InitState
  /\ cron = NoCron
  /\ \E eng \in EngineKinds : InitScheduler(eng, {"main"})
  /\ now = 0
  /\ source = [t \in Tables |-> [r \in RowIds |-> 0]]
  /\ target = [t \in Tables |-> [exists |-> FALSE, docs |-> NoDocs]]
  /\ last_sync_timestamps = [t \in {} |-> 0]
  /\ pc = "idle"
  /\ frame = IdleFrame
  /\ result = NoResult
  /\ stored_log = [t \in Tables |-> <<>>]
  /\ batch = IdleBatch
  /\ retry = IdleRetry
  /\ calls = <<>>
  /\ io_log = <<>>

NextSched ==
  \/ \E c \in DOMAIN cpc : StartCheck(c)
  \/ \E c \in DOMAIN cpc : StartReturn(c)
  \/ \E c \in DOMAIN cpc : StartSetRunning(c)
  \/ \E c \in DOMAIN cpc : StartClearEvent(c)
  \/ \E c \in DOMAIN cpc, th \in DOMAIN threads : StartSpawn(c, th)
  \/ \E c \in DOMAIN cpc : StopCheck(c)
  \/ \E c \in DOMAIN cpc : StopReturn(c)
  \/ \E c \in DOMAIN cpc : StopClearRunning(c)
  \/ \E c \in DOMAIN cpc : StopSetEvent(c)
  \/ \E c \in DOMAIN cpc : StopJoin(c)
  \/ \E c \in DOMAIN cpc : StopJoinTimeout(c)
  \/ \E th \in DOMAIN threads : RunCheckRunning(th)
  \/ \E th \in DOMAIN threads : RunCheckEvent(th)
  \/ \E th \in DOMAIN threads : RunInvoke(th)
  \/ \E th \in DOMAIN threads : RunSyncReturns(th)
  \/ \E th \in DOMAIN threads, e \in SyncErrors : RunSyncRaises(th, e)
  \/ \E th \in DOMAIN threads : RunWaitWoken(th)
  \/ \E th \in DOMAIN threads : RunWaitTimeout(th)

SpecSched == InitSched /\ [][NextSched]_vars

\* C17: every cycle's call of incremental_sync on a SyncEngine passes the
\* table name, primary key and modified-time column, and so is a valid call.
C17_CycleBindsTableArguments ==
  engine = "SyncEngine" =>
    \A th \in DOMAIN threads :
      threads[th].invoked =>
        /\ Len(threads[th].args) = Len(IncrementalSyncParameters)
        /\ threads[th].exc # MissingArguments

\* C18: a loop in which incremental_sync has raised goes on: its thread is
\* still inside _run, to wait and to invoke incremental_sync again.
C18_LoopSurvivesFailure ==
  \A th \in DOMAIN threads :
    threads[th].exc \in SyncErrors => Alive(th)

\* C19: between calls of start() and stop(), is_running() is true exactly
\* when a background loop is active.
C19_IsRunningReflectsLoop ==
  (\A c \in DOMAIN cpc : cpc[c] = "idle") =>
    (running <=> \E th \in DOMAIN threads : Alive(th))

\* C20: at most one background thread of the scheduler is alive at any
\* moment, whatever start() and stop() calls the single caller makes.
C20_AtMostOneLoop ==
  Cardinality({th \in DOMAIN threads : Alive(th)}) <= 1

\* the positions of a caller inside start(), inside stop()
StartPositions == {"start_noop", "start_set_running", "start_clear", "start_spawn"}
StopPositions == {"stop_noop", "stop_clear_running", "stop_set_event", "stop_join"}

\* caller c enters start() in this step, enters stop(), returns from either
StartCalled(c) == cpc[c] = "idle" /\ cpc'[c] \in StartPositions
StopCalled(c) == cpc[c] = "idle" /\ cpc'[c] \in StopPositions
StartReturned(c) == cpc[c] \in StartPositions /\ cpc'[c] = "idle"
StopReturned(c) == cpc[c] \in StopPositions /\ cpc'[c] = "idle"

\* C21: start() on a scheduler that is already running only checks the flag
\* and returns: from its call to its return the flag, the stop event and the
\* stored thread stay as they are and no thread is started.
C21_StartIdempotent ==
  [][\A c \in DOMAIN cpc :
       ((StartCalled(c) /\ running) \/ cpc[c] = "start_noop") =>
         /\ cpc'[c] \in {"start_noop", "idle"}
         /\ running' = running
         /\ stop_event' = stop_event
         /\ thread' = thread
         /\ \A th \in DOMAIN threads :
              threads[th].state # threads'[th].state =>
                threads'[th].state # "check_running" \/ threads[th].state = "wait"]_vars

\* start() has found the scheduler running, its thread inside _run
C21_Witness ==
  /\ cpc["main"] = "start_noop"
  /\ running
  /\ thread # 0
  /\ Alive(thread)

\* C22: the flag that is_running() returns is false at first, is set only
\* inside start() and is true when start() returns, is cleared only inside
\* stop() and is false when stop() returns, and does not change while the
\* caller is in neither; stop() on a scheduler that is not running changes
\* nothing.
C22_RunningFlagStateMachine ==
  /\ ~running
  /\ [][\A c \in DOMAIN cpc :
          /\ StartReturned(c) => running'
          /\ StopReturned(c) => ~running'
          /\ (~running /\ running') => cpc[c] = "start_set_running"
          /\ (running /\ ~running') => cpc[c] = "stop_clear_running"
          /\ ((StopCalled(c) /\ ~running) \/ cpc[c] = "stop_noop") =>
               /\ cpc'[c] \in {"stop_noop", "idle"}
               /\ running' = running
               /\ stop_event' = stop_event
               /\ thread' = thread]_vars

\* stop() has returned after a start(): the flag is false again
C22_Witness ==
  /\ cpc["main"] = "idle"
  /\ ~running
  /\ stop_event
  /\ thread = 0

RECURSIVE AfterSignalUpTo(_)
\* the calls of incremental_sync that threads 1..n began while the event was set
AfterSignalUpTo(n) ==
  IF n = 0 THEN 0 ELSE threads[n].after_signal + AfterSignalUpTo(n - 1)

InvocationsAfterSignal == AfterSignalUpTo(MaxThreads)

\* C23: once stop() has set the event, and until a later start() clears it,
\* at most one call of incremental_sync begins.
C23_AtMostOneInvocationAfterSignal ==
  stop_event => InvocationsAfterSignal <= 1

\* the steps of stop(), of the loop outside incremental_sync
StopSteps(c) ==
  \/ StopReturn(c)
  \/ StopClearRunning(c)
  \/ StopSetEvent(c)
  \/ StopJoin(c)
  \/ StopJoinTimeout(c)

LoopSteps(th) ==
  \/ RunCheckRunning(th)
  \/ RunCheckEvent(th)
  \/ RunInvoke(th)
  \/ RunWaitWoken(th)
  \/ RunWaitTimeout(th)

\* the caller inside stop() goes on, and so does a thread between two calls
\* of incremental_sync; how long incremental_sync takes is not bounded
SpecSchedFair ==
  /\ InitSched
  /\ [][NextSched]_vars
  /\ \A c \in {"main"} : WF_vars(StopSteps(c))
  /\ \A th \in 1..MaxThreads : WF_vars(LoopSteps(th))

\* C24: a call of stop() returns, also when the thread stays inside
\* incremental_sync; no step of stop() changes a thread, and a thread inside
\* incremental_sync leaves it only by the call's return or exception.
C24_StopReturns ==
  /\ \A c \in {"main"} : (cpc[c] \in StopPositions) ~> (cpc[c] = "idle")
  /\ [][\A th \in DOMAIN threads :
          /\ (\E c \in DOMAIN cpc : cpc[c] \in StopPositions /\ cpc'[c] # cpc[c])
               => threads'[th] = threads[th]
          /\ (threads[th].state = "syncing" /\ threads'[th].state # "syncing")
               => threads'[th].state \in {"wait", "crashed"}]_vars

\* stop() has returned while the thread it joined is inside incremental_sync
C24_Witness ==
  /\ cpc["main"] = "idle"
  /\ ~running
  /\ stop_event
  /\ thread = 0
  /\ \E th \in DOMAIN threads : threads[th].state = "syncing"

\* ------------------------------------------- the requests of a sync call
\* the positions in log of the requests named in names
Positions(log, names) == {k \in 1..Len(log) : log[k].call \in names}

\* full_sync or full_sync_batch is in progress or has just ended, and so has
\* incremental_sync
InFullSync ==
  \/ pc = "batch_loop"
  \/ pc = "done" /\ result.op \in {"full_sync", "full_sync_batch"}

InIncrementalSync ==
  \/ pc = "inc_extracted"
  \/ pc = "done" /\ result.op = "incremental_sync"

\* C28: the requests of a full_sync or full_sync_batch called with
\* recreate_index=true begin with the existence check, followed by one
\* delete_index exactly when the index exists, followed (unless the deletion
\* raised) by exactly one create_index with the primary key, all of them
\* before the extraction and before any request for a document write; with
\* recreate_index=false none of the three requests is made.
C28_RecreateBeforeExtraction ==
  [][(InFullSync' /\ io_log' # io_log) =>
       LET log == io_log'
           t == frame'.table
           checks == Positions(log, {"index_exists"})
           deletes == Positions(log, {"delete_index"})
           creates == Positions(log, {"create_index"})
           others == Positions(log, {"extract_from_oracle", "get_index",
                                     "add_documents", "update_documents",
                                     "get_stats"})
       IN IF frame'.recreate_index
            THEN /\ checks = {1}
                 /\ pc = "idle" =>
                      /\ target[t].exists => deletes = {2}
                      /\ ~target[t].exists => deletes = {}
                 /\ Cardinality(deletes) <= 1
                 /\ IF \E k \in deletes : log[k].raised # NoException
                      THEN creates = {}
                      ELSE /\ creates = {Cardinality(deletes) + 2}
                           /\ \A k \in creates : log[k].args = <<PrimaryKey>>
                 /\ \A k \in checks \cup deletes \cup creates : log[k].index = t
                 /\ \A k \in checks \cup deletes \cup creates, j \in others : k < j
            ELSE checks \cup deletes \cup creates = {}]_vars

\* full_sync has deleted and created the index, extracted and written
C28_Witness ==
  /\ pc = "done"
  /\ result.op = "full_sync"
  /\ result.status = "returned"
  /\ frame.recreate_index
  /\ Positions(io_log, {"delete_index"}) # {}
  /\ Positions(io_log, {"add_documents"}) # {}

\* C29: incremental_sync sends the document store no request before the
\* extraction has returned, never a request other than get_index and
\* update_documents, and when it returns it has sent one update_documents
\* carrying all the extracted rows if there is at least one row, and no
\* request at all if there is none.
C29_IncrementalTargetEffects ==
  InIncrementalSync =>
    LET writes == Positions(io_log, {"update_documents"})
        to_target == {k \in 1..Len(io_log) : io_log[k].call # "extract_changed_records"}
    IN /\ \A k \in to_target : io_log[k].call \in {"get_index", "update_documents"}
       /\ Cardinality(writes) <= 1
       /\ pc = "inc_extracted" => to_target = {}
       /\ (pc = "done" /\ result.status = "returned") =>
            IF result.changed_count > 0
              THEN /\ Cardinality(writes) = 1
                   /\ \A k \in writes :
                        /\ io_log[k].index = frame.table
                        /\ io_log[k].args = transform_to_documents(frame.changed_records)
                        /\ Len(io_log[k].args) = result.changed_count
              ELSE to_target = {}

\* an incremental_sync that extracted rows has returned
C29_Witness ==
  /\ pc = "done"
  /\ result.op = "incremental_sync"
  /\ result.status = "returned"
  /\ result.changed_count >= 1
  /\ Positions(io_log, {"update_documents"}) # {}

\* ------------------------------------------------ the batches of a pass
RECURSIVE Concatenated(_)
\* the documents of the writes of log, one after the other
Concatenated(log) ==
  IF log = <<>> THEN <<>> ELSE Head(log).documents \o Concatenated(Tail(log))

\* C30: when full_sync_batch returns, the batches it wrote, put end to end,
\* are the extracted documents in their order; every batch but the last has
\* batch_size documents and the last has between 1 and batch_size; without
\* any extracted document there is no batch and success is true.
C30_BatchesPartitionDocuments ==
  BatchReturned =>
    LET B == batch.batch_size
        n == Len(calls)
    IN /\ batch.documents =
            transform_to_documents(extract_from_oracle(batch.index_name, source))
       /\ Concatenated(calls) = batch.documents
       /\ \A k \in 1..n :
            /\ calls[k].call = "insert_documents_batch"
            /\ k < n => Len(calls[k].documents) = B
            /\ k = n => Len(calls[k].documents) \in 1..B
       /\ batch.documents = <<>> => (n = 0 /\ result.success)

\* a full batch followed by a last one shorter than batch_size
C30_Witness ==
  /\ BatchReturned
  /\ Len(calls) = 2
  /\ Len(calls[1].documents) = batch.batch_size
  /\ Len(calls[2].documents) < batch.batch_size

\* ------------------------------------------------- reads of the history
\* lines 375-377: the last entry of the table's list, None without one
get_sync_status(hist, t) ==
  IF t \in DOMAIN hist /\ Len(hist[t]) > 0 THEN hist[t][Len(hist[t])] ELSE None

RECURSIVE LastSuccessFrom(_, _)
\* lines 392-396: for status in reversed(history), from entry i downwards
LastSuccessFrom(history, i) ==
  IF i = 0 THEN None
  ELSE IF history[i].status = "success" THEN history[i]
  ELSE LastSuccessFrom(history, i - 1)

\* only the newest entry is looked at
get_last_successful_sync_NewestOnly(hist, t) ==
  IF t \notin DOMAIN hist \/ hist[t] = <<>> THEN None
  ELSE IF hist[t][Len(hist[t])].status = "success" THEN hist[t][Len(hist[t])]
  ELSE None

\* lines 388-396
get_last_successful_sync(hist, t) ==
  IF t \notin DOMAIN hist THEN None
  ELSE LastSuccessFrom(hist[t], Len(hist[t]))

\* line 407: self._sync_history.get(table_name, [])
get_sync_history(hist, t) ==
  IF t \in DOMAIN hist THEN hist[t] ELSE <<>>

\* the caller reads the history
GetSyncStatus(t) ==
  /\ pc = "idle"
  /\ query' = [op |-> "get_sync_status", table |-> t,
               value |-> get_sync_status(sync_history, t)]
  /\ UNCHANGED <<engineVars, stateVars, schedVars, saved, cron>>

GetLastSuccessfulSync(t) ==
  /\ pc = "idle"
  /\ query' = [op |-> "get_last_successful_sync", table |-> t,
               value |-> get_last_successful_sync(sync_history, t)]
  /\ UNCHANGED <<engineVars, stateVars, schedVars, saved, cron>>

GetSyncHistory(t) ==
  /\ pc = "idle"
  /\ query' = [op |-> "get_sync_history", table |-> t,
               value |-> get_sync_history(sync_history, t)]
  /\ UNCHANGED <<engineVars, stateVars, schedVars, saved, cron>>

\* passes are recorded for any table and with any status, each with a record
\* count of its own (which tells the entries apart), and the history is read
\* in between
NextHistory ==
  \/ \E t \in Tables, status \in Statuses :
       SaveSyncStatus(t, now, now, Len(saved), status)
  \/ \E t \in Tables : GetSyncStatus(t)
  \/ \E t \in Tables : GetLastSuccessfulSync(t)
  \/ \E t \in Tables : GetSyncHistory(t)

SpecHistory == Init /\ [][NextHistory]_vars

\* the entries saved for table t, in call order
SavedFor(t) == SelectSeq(saved, LAMBDA e : e.table_name = t)

\* the positions of the successful ones among them
Successes(t) == {i \in 1..Len(SavedFor(t)) : SavedFor(t)[i].status = "success"}

\* C26: get_last_successful_sync(t) returns the entry saved last for t among
\* those with status 'success', whatever was saved after it, and None when
\* no entry of t has that status.
C26_LastSuccessfulSync ==
  query.op = "get_last_successful_sync" =>
    LET t == query.table
    IN query.value =
         IF Successes(t) = {} THEN None
         ELSE SavedFor(t)[CHOOSE i \in Successes(t) : \A j \in Successes(t) : j <= i]

\* the success returned is followed by an entry that is not one
C26_Witness ==
  /\ query.op = "get_last_successful_sync"
  /\ query.value # None
  /\ get_sync_status(sync_history, query.table).status \in {"failed", "partial"}

\* C27: get_sync_history(t) is the sequence of the entries saved for t, in
\* call order, empty for a table never saved; get_sync_status(t) is its last
\* element, None when it is empty; and a save_sync_status call only appends
\* one entry to the list of its table.
C27_HistoryAppendOnly ==
  /\ \A t \in Tables : get_sync_history(sync_history, t) = SavedFor(t)
  /\ query.op = "get_sync_history" => query.value = SavedFor(query.table)
  /\ query.op = "get_sync_status" =>
       query.value = IF SavedFor(query.table) = <<>> THEN None
                     ELSE SavedFor(query.table)[Len(SavedFor(query.table))]

\* the history read holds two entries of one table while another table has
\* one of its own
C27_Witness ==
  /\ query.op = "get_sync_history"
  /\ Len(query.value) >= 2
  /\ \E t \in Tables \ {query.table} : Len(SavedFor(t)) >= 1

\* ---------------------------------------------------------- CronScheduler
\* datetime: hour in 0..23, minute in 0..59
HoursPerDay == 24
MinutesPerHour == 60

\* the minute field of the expression: "*/N", kept as its N, or a field that
\* does not start with "*/"
MinuteFields ==
  {[every |-> TRUE, n |-> n] : n \in 1..(MinutesPerHour - 1)}
    \cup {[every |-> FALSE, n |-> 0]}

\* datetime.now(), the date left out (no replace() below touches it): every
\* hour and minute, at the first and at the last microsecond of the minute
ClockTimes ==
  {[hour |-> h, minute |-> mi, second |-> sm[1], microsecond |-> sm[2]] :
     h \in 0..(HoursPerDay - 1), mi \in 0..(MinutesPerHour - 1),
     sm \in {<<0, 0>>, <<59, 999999>>}}

HourOutOfRange == [type |-> "ValueError", msg |-> "hour must be in 0..23"]
MinuteOutOfRange == [type |-> "ValueError", msg |-> "minute must be in 0..59"]

\* datetime.replace(...) giving dt: the constructor checks the fields
Replace(dt) ==
  IF dt.hour \notin 0..(HoursPerDay - 1)
    THEN [raised |-> HourOutOfRange, value |-> Midnight]
  ELSE IF dt.minute \notin 0..(MinutesPerHour - 1)
    THEN [raised |-> MinuteOutOfRange, value |-> Midnight]
  ELSE [raised |-> NoException, value |-> dt]

\* the hour, day, month and weekday fields of the expression: all "*", or
\* one fixed moment of the year
OtherFields ==
  {[hour |-> "*", day |-> "*", month |-> "*", weekday |-> "*"],
   [hour |-> "3", day |-> "1", month |-> "6", weekday |-> "0"]}

\* a fallback that carries the minute over into the hour
get_next_run_time_RollsOver(minute, dt) ==
  IF dt.minute + 1 >= MinutesPerHour
    THEN Replace([dt EXCEPT !.second = 0, !.microsecond = 0, !.minute = 0,
                            !.hour = dt.hour + 1])
    ELSE Replace([dt EXCEPT !.second = 0, !.microsecond = 0,
                            !.minute = dt.minute + 1])

\* get_next_run_time with the clock at dt; of the five fields only the
\* minute is read
get_next_run_time(minute, dt) ==
  IF minute.every
    THEN LET interval == minute.n
             current_minute == dt.minute
             next_minute == ((current_minute \div interval) + 1) * interval
         IN IF next_minute >= MinutesPerHour
              THEN Replace([dt EXCEPT !.minute = 0, !.second = 0,
                                      !.microsecond = 0, !.hour = dt.hour + 1])
              ELSE Replace([dt EXCEPT !.minute = next_minute, !.second = 0,
                                      !.microsecond = 0])
    ELSE Replace([dt EXCEPT !.second = 0, !.microsecond = 0,
                            !.minute = dt.minute + 1])

\* the call of get_next_run_time
GetNextRunTime ==
  /\ cron.pc = "idle"
  /\ LET r == get_next_run_time(cron.minute, cron.now)
     IN cron' = [cron EXCEPT !.pc = "done", !.raised = r.raised,
                             !.next_run = r.value]
  /\ UNCHANGED <<engineVars, stateVars, schedVars, saved, query>>

\* a CronScheduler constructed from a five-field expression, at any time of
\* the day
InitCron ==
  /\ InitState
  /\ InitScheduler("SyncEngine", {"main"})
  /\ \E minute \in MinuteFields, others \in OtherFields, dt \in ClockTimes :
       cron = [NoCron EXCEPT !.minute = minute, !.others = others, !.now = dt,
                             !.pc = "idle"]
  /\ now = 0
  /\ source = [t \in Tables |-> [r \in RowIds |-> 0]]
  /\ target = [t \in Tables |-> [exists |-> FALSE, docs |-> NoDocs]]
  /\ last_sync_timestamps = [t \in {} |-> 0]
  /\ pc = "idle"
  /\ frame = IdleFrame
  /\ result = NoResult
  /\ stored_log = [t \in Tables |-> <<>>]
  /\ batch = IdleBatch
  /\ retry = IdleRetry
  /\ calls = <<>>
  /\ io_log = <<>>

NextCron == GetNextRunTime

SpecCron == InitCron /\ [][NextCron]_vars

\* whole seconds since the start of the day
SecondOfDay(dt) == (dt.hour * MinutesPerHour + dt.minute) * 60 + dt.second

\* a > b, and a - b <= timedelta(minutes=n), on datetimes of the same day
Later(a, b) ==
  \/ SecondOfDay(a) > SecondOfDay(b)
  \/ SecondOfDay(a) = SecondOfDay(b) /\ a.microsecond > b.microsecond

WithinMinutes(a, b, n) ==
  \/ SecondOfDay(a) - SecondOfDay(b) < n * 60
  \/ SecondOfDay(a) - SecondOfDay(b) = n * 60 /\ a.microsecond <= b.microsecond

\* C25: with a minute field */N, 1 <= N <= 59, get_next_run_time returns at
\* every time of the day a datetime later than now, at most N minutes later,
\* with seconds zero and a minute that is a multiple of N.
C25_NextRunWithinInterval ==
  (cron.pc = "done" /\ cron.minute.every) =>
    /\ cron.raised = NoException
    /\ Later(cron.next_run, cron.now)
    /\ WithinMinutes(cron.next_run, cron.now, cron.minute.n)
    /\ cron.next_run.second = 0
    /\ cron.next_run.microsecond = 0
    /\ cron.next_run.minute % cron.minute.n = 0

\* C37: with a minute field that is not */N, whatever the other four fields,
\* get_next_run_time returns now cut to the minute plus one minute when the
\* minute is at most 58, and fails with an error, returning no time, when the
\* minute is 59.
C37_FallbackNextMinute ==
  (cron.pc = "done" /\ ~cron.minute.every) =>
    IF cron.now.minute <= 58
      THEN /\ cron.raised = NoException
           /\ cron.next_run = [hour |-> cron.now.hour, minute |-> cron.now.minute + 1,
                               second |-> 0, microsecond |-> 0]
      ELSE cron.raised = MinuteOutOfRange

\* the call at minute 59 has failed, the hour field naming another hour
C37_Witness ==
  /\ cron.pc = "done"
  /\ ~cron.minute.every
  /\ cron.others.hour = "3"
  /\ cron.now.hour = 10
  /\ cron.now.minute = 59
  /\ cron.raised = MinuteOutOfRange

\* -------------------------------------------- properties of the retry loop
\* C31: every attempt of full_sync_with_retry runs full_sync from its
\* beginning: the index is recreated again when recreate_index is true, the
\* whole table is extracted again (once per attempt, unless the recreation
\* raised), and the one load request carries all the extracted documents,
\* whatever the attempts before it had done.
C31_WholeOperationRetry ==
  [][(pc = "retry_loop" /\ Len(calls') = Len(calls) + 1) =>
       LET log == io_log'
           t == retry.index_name
           documents == transform_to_documents(extract_from_oracle(t, source))
           recreation == Positions(log, {"index_exists", "delete_index", "create_index"})
           extractions == Positions(log, {"extract_from_oracle"})
           loads == Positions(log, {"add_documents"})
           recreation_raised == \E k \in recreation : log[k].raised # NoException
       IN /\ calls'[Len(calls')].call = "full_sync"
          /\ log # <<>>
          /\ log[1].call = IF retry.recreate_index THEN "index_exists"
                                                   ELSE "extract_from_oracle"
          /\ (retry.recreate_index /\ ~recreation_raised) =>
                Cardinality(Positions(log, {"create_index"})) = 1
          /\ ~retry.recreate_index => recreation = {}
          /\ Cardinality(extractions) = IF recreation_raised THEN 0 ELSE 1
          /\ \A k \in extractions : \A j \in recreation : j < k
          /\ Cardinality(loads) <= 1
          /\ \A k \in loads :
               /\ log[k].args = documents
               /\ \A j \in extractions : j < k /\ log[j].raised = NoException
          /\ calls'[Len(calls')].raised = NoException =>
               (Cardinality(loads) = 1 /\ \A k \in loads : log[k].raised = NoException)]_vars

\* the second attempt has succeeded after a first one that failed on a
\* request to the document store; both recreated the index
C31_Witness ==
  /\ pc = "done"
  /\ result.op = "full_sync_with_retry"
  /\ result.success
  /\ retry.recreate_index
  /\ Len(calls) = 3
  /\ calls[1].raised \in WriteErrors
  /\ Positions(io_log, {"create_index"}) # {}
  /\ Positions(io_log, {"add_documents"}) # {}

\* C32: when an attempt of full_sync_with_retry succeeds the call returns at
\* once: the result is the one full_sync returns (success true and the two
\* counts) with retry_count set to the number of failed attempts before it,
\* and the successful attempt is the last thing the call did.
C32_StopsAtFirstSuccess ==
  (RetryEnded /\ result.success) =>
    LET t == retry.index_name
        last == Len(calls)
    IN /\ result.status = "returned"
       /\ last \in Attempts
       /\ calls[last].raised = NoException
       /\ \A a \in Attempts \ {last} : calls[a].raised # NoException
       /\ result.retry_count = Cardinality(Attempts) - 1
       /\ result.retry_count = Cardinality(Sleeps)
       /\ result.oracle_count = Len(source[t])
       /\ result.meilisearch_count = Cardinality(DOMAIN target[t].docs)
       /\ result =
            [full_sync(t, retry.recreate_index, "none", NoException, source, target).result
               EXCEPT !.op = "full_sync_with_retry",
                      !.retry_count = Cardinality(Attempts) - 1]

\* the third attempt has succeeded
C32_Witness ==
  /\ RetryEnded
  /\ result.success
  /\ result.retry_count = 2
  /\ Len(calls) = 5

\* C38: full_sync_with_retry with max_retries <= 0 makes no attempt, no
\* request and no sleep, and returns, without raising, success false,
\* retry_count 0 and as error the text of None.
C38_NoAttemptWithoutRetries ==
  (pc = "done" /\ result.op = "full_sync_with_retry" /\ retry.max_retries <= 0) =>
    /\ calls = <<>>
    /\ io_log = <<>>
    /\ result.status = "returned"
    /\ ~result.success
    /\ result.retry_count = 0
    /\ result.error = "None"
    /\ result.error = Str(NoException)
    /\ result.error \notin {Str(e) : e \in ExtractionErrors \cup WriteErrors \cup {IndexNotFound}}

\* the call with a negative max_retries has returned
C38_Witness ==
  /\ pc = "done"
  /\ result.op = "full_sync_with_retry"
  /\ retry.max_retries < 0
  /\ result.error = "None"

\* ------------------------------------------------ two callers of start()
\* two threads of the program hold the scheduler, which is idle
InitRace ==
  /\ InitState
  /\ cron = NoCron
  /\ \E eng \in EngineKinds : InitScheduler(eng, {"main", "other"})
  /\ now = 0
  /\ source = [t \in Tables |-> [r \in RowIds |-> 0]]
  /\ target = [t \in Tables |-> [exists |-> FALSE, docs |-> NoDocs]]
  /\ last_sync_timestamps = [t \in {} |-> 0]
  /\ pc = "idle"
  /\ frame = IdleFrame
  /\ result = NoResult
  /\ stored_log = [t \in Tables |-> <<>>]
  /\ batch = IdleBatch
  /\ retry = IdleRetry
  /\ calls = <<>>
  /\ io_log = <<>>

\* the callers call start() only; the statements of start() are not under a
\* lock and interleave
NextRace ==
  \/ \E c \in DOMAIN cpc : StartCheck(c)
  \/ \E c \in DOMAIN cpc : StartReturn(c)
  \/ \E c \in DOMAIN cpc : StartSetRunning(c)
  \/ \E c \in DOMAIN cpc : StartClearEvent(c)
  \/ \E c \in DOMAIN cpc, th \in DOMAIN threads : StartSpawn(c, th)
  \/ \E th \in DOMAIN threads : RunCheckRunning(th)
  \/ \E th \in DOMAIN threads : RunCheckEvent(th)
  \/ \E th \in DOMAIN threads : RunInvoke(th)
  \/ \E th \in DOMAIN threads : RunSyncReturns(th)
  \/ \E th \in DOMAIN threads, e \in SyncErrors : RunSyncRaises(th, e)
  \/ \E th \in DOMAIN threads : RunWaitTimeout(th)

SpecRace == InitRace /\ [][NextRace]_vars

\* C33: whatever the interleaving of two callers of start() on an idle
\* scheduler, one background thread is started and no more.
C33_OneContextSpawned ==
  Cardinality({th \in DOMAIN threads : threads[th].state # "unstarted"}) <= 1

\* ------------------------------------- two threads inside incremental_sync
\* The engine takes no lock: when the caller of the engine and the thread of
\* the scheduler are inside incremental_sync together, their statements
\* interleave. Each thread has its own locals; the watermark map, the source
\* and the index are shared.

\* the variables the two threads leave alone
passVars == <<pc, frame, result, stored_log, loopVars, io_log, stateVars,
              schedVars, saved, cron, query>>

\* lines 199-204: thread p reads the watermark of t and runs the extraction
\* query; the query sees the source as it is now and its round trip takes
\* one tick
PassExtract(p, t) ==
  /\ passes[p].pc = "idle"
  /\ get_last_sync_timestamp(last_sync_timestamps, t) # -1
  /\ now < MaxTime
  /\ LET last_sync == get_last_sync_timestamp(last_sync_timestamps, t)
     IN passes' = [passes EXCEPT ![p] =
                     [pc |-> "extracted", table |-> t, last_sync |-> last_sync,
                      changed_records |-> extract_changed_records(t, last_sync, source),
                      current_time |-> -1]]
  /\ now' = now + 1
  /\ UNCHANGED <<source, target, last_sync_timestamps, passVars>>

\* lines 206-209: thread p upserts what it extracted, when there is any
PassUpsert(p) ==
  /\ passes[p].pc = "extracted"
  /\ LET t == passes[p].table
         changed_count == Len(passes[p].changed_records)
         documents == transform_to_documents(passes[p].changed_records)
     IN /\ changed_count > 0 => target[t].exists
        /\ target' = IF changed_count > 0
                       THEN [target EXCEPT ![t].docs = ApplyDocuments(@, documents)]
                       ELSE target
  /\ passes' = [passes EXCEPT ![p].pc = "upserted"]
  /\ UNCHANGED <<now, source, last_sync_timestamps, passVars>>

\* line 211: current_time = datetime.now()
PassSample(p) ==
  /\ passes[p].pc = "upserted"
  /\ passes' = [passes EXCEPT ![p].pc = "sampled", ![p].current_time = now]
  /\ UNCHANGED <<now, source, target, last_sync_timestamps, passVars>>

\* lines 212-218: thread p stores the time it sampled as the watermark of its
\* table and returns
PassStore(p) ==
  /\ passes[p].pc = "sampled"
  /\ last_sync_timestamps' =
       save_last_sync_timestamp(last_sync_timestamps, passes[p].table,
                                passes[p].current_time)
  /\ passes' = [passes EXCEPT ![p] = IdlePass]
  /\ UNCHANGED <<now, source, target, passVars>>

\* the index of each table exists and each table has a watermark, saved at
\* time 0; nobody is inside the engine
InitConcurrent ==
  /\ InitState
  /\ cron = NoCron
  /\ InitScheduler("SyncEngine", {"main"})
  /\ now = 0
  /\ source = [t \in Tables |-> [r \in RowIds |-> 0]]
  /\ target = [t \in Tables |-> [exists |-> TRUE, docs |-> NoDocs]]
  /\ last_sync_timestamps = [t \in Tables |-> 0]
  /\ pc = "idle"
  /\ frame = IdleFrame
  /\ result = NoResult
  /\ stored_log = [t \in Tables |-> <<>>]
  /\ batch = IdleBatch
  /\ retry = IdleRetry
  /\ calls = <<>>
  /\ io_log = <<>>

NextConcurrent ==
  \/ Tick
  \/ \E t \in SyncTables, r \in RowIds : ModifyRow(t, r)
  \/ \E p \in Passes, t \in SyncTables : PassExtract(p, t)
  \/ \E p \in Passes : PassUpsert(p)
  \/ \E p \in Passes : PassSample(p)
  \/ \E p \in Passes : PassStore(p)

SpecConcurrent == InitConcurrent /\ [][NextConcurrent]_vars

\* C34: while the two threads are inside incremental_sync on one table, no
\* step lowers the stored watermark of a table: a thread that sampled the
\* time earlier never replaces a later watermark the other thread stored.
C34_WatermarkNeverDecreases ==
  [][\A t \in DOMAIN last_sync_timestamps :
       last_sync_timestamps'[t] >= last_sync_timestamps[t]]_vars

\* ------------------------------------------- properties of the loop of _run
\* C35: a thread of the scheduler goes round _run in one order: loop check,
\* call of incremental_sync, its return, one wait, loop check again; it
\* reaches its first call without any wait, waits only after a call has
\* returned, and begins a call only after the wait that followed the
\* previous one has ended.
C35_LoopOrder ==
  [][\A th \in DOMAIN threads :
       LET a == threads[th].state
           b == threads'[th].state
       IN a # b =>
            /\ b = "check_running" => (a = "wait" \/ ~Alive(th))
            /\ b = "check_event" => a = "check_running"
            /\ b = "invoke" => a = "check_event"
            /\ b = "syncing" => a = "invoke"
            /\ b = "wait" => a = "syncing"
            /\ a = "wait" => b = "check_running"
            /\ a = "syncing" => b \in {"wait", "crashed"}
            /\ (~Alive(th) /\ Alive(th)') => ~threads'[th].invoked]_vars

\* a thread is past the wait that followed its first call, at the loop check
C35_Witness ==
  \E th \in DOMAIN threads :
    /\ threads[th].state = "check_event"
    /\ threads[th].invoked

\* the loop goes on, and a call of incremental_sync that does not raise
\* returns
SpecSchedLive ==
  /\ InitSched
  /\ [][NextSched]_vars
  /\ \A th \in 1..MaxThreads : WF_vars(LoopSteps(th))
  /\ \A th \in 1..MaxThreads : WF_vars(RunSyncReturns(th))

\* C36: if stop() is never called and no call of incremental_sync raises, a
\* started loop calls incremental_sync again and again: from anywhere in the
\* loop it reaches the call, from the call the wait, from the wait the call.
C36_InvokedInfinitelyOften ==
  ([](\A c \in {"main"} : cpc[c] \notin StopPositions)
     /\ [](\A th \in 1..MaxThreads : threads[th].state # "crashed"))
    => \A th \in 1..MaxThreads :
         /\ Alive(th) ~> (threads[th].state = "syncing")
         /\ (threads[th].state = "syncing") ~> (threads[th].state = "wait")
         /\ (threads[th].state = "wait") ~> (threads[th].state = "syncing")

\* a loop whose first call has returned is about to call again
C36_Witness ==
  /\ running
  /\ ~stop_event
  /\ \A th \in DOMAIN threads : threads[th].state # "crashed"
  /\ \E th \in DOMAIN threads :
       /\ threads[th].state = "invoke"
       /\ threads[th].invoked

\* ---------------------------------------------- properties of the failures
\* the k-th entry of calls is a full_sync attempt whose extraction raised
ExtractionFailed(k) ==
  /\ calls[k].call = "full_sync"
  /\ calls[k].raised \in ExtractionErrors

\* the k-th entry of calls is a full_sync attempt that got as far as the
\* extraction: the extraction raised, or a later step did, or nothing did
ExtractionInvoked(k) ==
  /\ calls[k].call = "full_sync"
  /\ calls[k].raised \in ExtractionErrors \cup {NoException, IndexNotFound}

C12_NoExceptionEscapes ==
  (pc = "done" /\ result.op \in {"full_sync_with_retry", "full_sync_batch"})
    => result.status = "returned"

\* C12 amended: full_sync_with_retry always returns a dict, with success
\* false unless its last attempt succeeded, whichever step of the attempts
\* failed; full_sync_batch returns a dict with success false when a batch
\* write failed, but a failure of the index recreation or of the extraction,
\* which come before the first batch, escapes it as an exception.
C12_StructuredFailure ==
  /\ (pc = "done" /\ result.op = "full_sync_with_retry") =>
       /\ result.status = "returned"
       /\ result.success <=>
            (calls # <<>> /\ calls[Len(calls)].raised = NoException)
       /\ ~result.success => result.error = Str(retry.last_exception)
  /\ (pc = "done" /\ result.op = "full_sync_batch") =>
       /\ result.status = "raised" =>
            /\ calls = <<>>
            /\ result.exc = result.origin
            /\ result.exc \in ExtractionErrors \cup WriteErrors
       /\ result.status = "returned" =>
            (result.success <=>
               \A k \in 1..Len(calls) : calls[k].raised = NoException)
       /\ (\E k \in 1..Len(calls) : calls[k].raised # NoException) =>
            (result.status = "returned" /\ ~result.success)

C12_Witness ==
  /\ pc = "done"
  /\ result.op = "full_sync_with_retry"
  /\ result.status = "returned"
  /\ ~result.success
  /\ retry.max_retries = 2
  /\ calls[1].raised \in WriteErrors
  /\ calls[3].raised \in ExtractionErrors
  /\ result.error = Str(calls[3].raised)

====
